---- MODULE Spec2Model ----
(***************************************************************************)
(* Model of the analysis pipeline of the repository: the event store       *)
(* (users, user_logs, ab_test_results), the retention engine               *)
(* (calculate_retention), the significance engine (analyze_ab_test), the   *)
(* segmentation engine (analyze_segments), the pipeline that calls them    *)
(* (run_all_analysis) and the presentation layer that loads the documents  *)
(* (create_static_dashboard and the pages of app.py).                      *)
(*                                                                         *)
(* Dates are day numbers.  A value an SQL expression yields is either NULL *)
(* (the empty tuple) or <<v>>; comparisons with NULL are never true, as in *)
(* SQL.  An event timestamp is a date and a time of day; DATE() keeps the  *)
(* date.  Rates are integers in hundredths of a percent (round(x, 2)),     *)
(* statistics are integers in ten-thousandths (round(x, 4)).               *)
(***************************************************************************)
EXTENDS Integers, Sequences, FiniteSets, TLC

(***************************************************************************)
(* Bounds of the model.                                                    *)
(***************************************************************************)
MaxUsers == 2
MaxLogs == 2
MaxAbUsers == 4
Today == 40

UserIds == 1..MaxUsers
SignupDays == {Today - 30, Today - 7}
EventNames == {"reward_earned", "app_open"}
EventStamps ==
    { [date |-> Today - 30, time |-> "06:00"],
      [date |-> Today - 29, time |-> "23:00"],
      [date |-> Today - 7, time |-> "06:00"],
      [date |-> Today, time |-> "12:00"],
      [date |-> Today + 7, time |-> "06:00"] }
LogRows == [user_id : UserIds, event_name : EventNames, event_timestamp : EventStamps]
AbUserIds == 1..MaxAbUsers
GroupNames == {"A", "B"}
AbRows == [group_name : GroupNames, is_converted : {0, 1}]

VARIABLES
    users,              \* table users: user_id -> signup_date
    user_logs,          \* table user_logs: set of rows
    ret_pc,             \* position of calculate_retention
    ret_i,              \* index of the horizon the current loop is at
    overall_retention,  \* dict built by the first loop
    reward_comparison,  \* dict built by the second loop
    cohort_analysis,    \* list built from the cohort query
    ret_error,          \* exception that ended calculate_retention, or NoError
    retention_file,     \* retention_analysis.json on disk, or NoFile
    ab_test_results,    \* table ab_test_results: user_id -> row
    ab_pc,              \* position of analyze_ab_test
    ab_df,              \* result of the GROUP BY query
    ab_ztest,           \* locals of the z-test (lines 52-69)
    ab_results,         \* the results dict
    ab_error,           \* exception that ended analyze_ab_test, or NoError
    ab_file,            \* ab_test_analysis.json on disk, or NoFile
    temp_clusters,      \* table temp_clusters of the store, or NoTable
    n_clusters,         \* argument n_clusters of analyze_segments
    seg_pc,             \* position of analyze_segments
    seg_df,             \* df: user_id -> row of the feature query
    elbow_data,         \* list built from the sweep over K_range
    clock,              \* time of day of the wall clock, in quarter days
    gen_pc,             \* position of the data generation
    gen_error,          \* exception that ended the last generator, or NoError
    seg_labels,         \* df['cluster']: user_id -> label of the final fit
    segment_stats,      \* list built by the loop of lines 125-140
    segment_retention,  \* list built by the loop of lines 177-185
    hte_analysis,       \* list built by the loop of lines 204-222
    seg_error,          \* exception that ended analyze_segments, or NoError
    seg_file,           \* segment_analysis.json on disk, or NoFile
    dash_out            \* what the last request to the presentation layer showed

vars == <<users, user_logs, ret_pc, ret_i, overall_retention, reward_comparison,
          cohort_analysis, ret_error, retention_file,
          ab_test_results, ab_pc, ab_df, ab_ztest, ab_results, ab_error, ab_file,
          temp_clusters, n_clusters, seg_pc, seg_df, elbow_data, seg_labels,
          segment_stats, segment_retention, hte_analysis, seg_error, seg_file,
          dash_out, clock, gen_pc, gen_error>>

NULL == <<>>
NoError == [type |-> "none", message |-> <<>>]
NoOutput == [request |-> "none", outcome |-> "none", missing |-> {}, delta |-> "none"]
NoTable == [exists |-> FALSE, rows |-> {}]
NoFile == [present |-> FALSE]
EmptyDict == [k \in {} |-> 0]

Range(s) == {s[i] : i \in DOMAIN s}

(***************************************************************************)
(* SQLite date functions and comparisons.                                  *)
(***************************************************************************)
\* DATE(x) of a stored signup_date ('YYYY-MM-DD').
SqlDate(d) == <<d>>

\* DATE(event_timestamp): the date part of an ISO timestamp.
SqlDateOfStamp(ts) == <<ts.date>>

\* DATE(x, '+n days').
SqlDatePlusDays(d, n) == <<d + n>>

\* DATE(x, 'start of week'): SQLite knows 'start of month', 'start of year'
\* and 'start of day'; a modifier it does not know makes DATE() yield NULL.
SqlDateStartOfWeek(d) == NULL

\* DATE('now').
SqlDateNow == <<Today>>

SqlEq(a, b) == a # NULL /\ b # NULL /\ a[1] = b[1]
SqlLe(a, b) == a # NULL /\ b # NULL /\ a[1] <= b[1]

(***************************************************************************)
(* Common table expressions of the retention queries.                      *)
(***************************************************************************)
user_signup == {[user_id |-> u, signup_date |-> users[u]] : u \in DOMAIN users}

\* SELECT DISTINCT user_id, DATE(event_timestamp): a set of rows.
user_activity ==
    {[user_id |-> <<l.user_id>>, activity_date |-> SqlDateOfStamp(l.event_timestamp)] :
        l \in user_logs}

\* The right side of a LEFT JOIN row that found no match: every column NULL.
NoActivity == [user_id |-> NULL, activity_date |-> NULL]

\* us LEFT JOIN user_activity ua ON us.user_id = ua.user_id
ActivityOf(uid) ==
    LET m == {a \in user_activity : SqlEq(<<uid>>, a.user_id)}
    IN  IF m = {} THEN {NoActivity} ELSE m

\* Mutant: the horizon left out of the WHERE clause.
EligibleWhere_NoHorizon(us, day) == SqlLe(SqlDate(us.signup_date), SqlDateNow)

\* WHERE DATE(us.signup_date, '+{day} days') <= DATE('now')
EligibleWhere(us, day) == SqlLe(SqlDatePlusDays(us.signup_date, day), SqlDateNow)

\* Mutant: any activity on or after day h counts.
RetainedCase_Window(us, ua, day) ==
    SqlLe(SqlDatePlusDays(us.signup_date, day), ua.activity_date)

\* CASE WHEN DATE(ua.activity_date) = DATE(us.signup_date, '+{day} days')
RetainedCase(us, ua, day) ==
    SqlEq(ua.activity_date, SqlDatePlusDays(us.signup_date, day))

(***************************************************************************)
(* Overall retention query and the Python that follows it.                 *)
(***************************************************************************)
retention_days == <<1, 3, 7, 14, 30>>

\* f'D{day}'
DKey(day) == "D" \o ToString(day)

\* FROM user_signup us LEFT JOIN user_activity ua ... WHERE ...
JoinedRows(day) ==
    UNION {{[us |-> s, ua |-> a] : a \in ActivityOf(s.user_id)} :
            s \in {x \in user_signup : EligibleWhere(x, day)}}

\* Mutant: retained users counted over all users, the WHERE clause applied to
\* total_users only.
OverallQuery_RetainedUnfiltered(day) ==
    [total_users |-> Cardinality({r.us.user_id : r \in JoinedRows(day)}),
     retained_users |->
        Cardinality({s.user_id :
            s \in {x \in user_signup :
                     \E a \in ActivityOf(x.user_id) : RetainedCase(x, a, day)}})]

\* COUNT(DISTINCT us.user_id), COUNT(DISTINCT CASE WHEN ... THEN us.user_id END)
OverallQuery(day) ==
    LET rows == JoinedRows(day)
    IN  [total_users |-> Cardinality({r.us.user_id : r \in rows}),
         retained_users |->
            Cardinality({r.us.user_id :
                            r \in {x \in rows : RetainedCase(x.us, x.ua, day)}})]

\* round(num / den * 100, 2) in hundredths: nearest, ties to even.
RoundDiv(num, den) ==
    LET q == num \div den
        r == num % den
    IN  IF 2 * r > den \/ (2 * r = den /\ q % 2 = 1) THEN q + 1 ELSE q

\* (retained / total * 100) if total > 0 else 0, then round(.., 2)
RetentionRate(retained, total) ==
    IF total > 0 THEN RoundDiv(retained * 10000, total) ELSE 0

RetentionEntry(row) ==
    [total_users |-> row.total_users,
     retained_users |-> row.retained_users,
     retention_rate |-> RetentionRate(row.retained_users, row.total_users)]

(***************************************************************************)
(* Reward comparison query.                                                *)
(***************************************************************************)
\* (SELECT signup_date FROM users WHERE users.user_id = user_logs.user_id)
SignupDateSubquery(uid) ==
    IF uid \in DOMAIN users THEN SqlDate(users[uid]) ELSE NULL

\* Mutant: a reward on any day makes a reward user.
RewardWhere_AnyDay(l) == l.event_name = "reward_earned"

\* WHERE event_name = 'reward_earned' AND DATE(event_timestamp) = DATE((SELECT ...))
RewardWhere(l) ==
    /\ l.event_name = "reward_earned"
    /\ SqlEq(SqlDateOfStamp(l.event_timestamp), SignupDateSubquery(l.user_id))

reward_users == {l.user_id : l \in {x \in user_logs : RewardWhere(x)}}

\* CASE WHEN ru.user_id IS NOT NULL THEN 'reward' ELSE 'no_reward' END
UserType(uid) == IF uid \in reward_users THEN "reward" ELSE "no_reward"

\* Mutant: the 'no_reward' group takes every joined row.
RewardQuery_NoRewardIsEveryone(day) ==
    LET rows == JoinedRows(day)
        types == {UserType(r.us.user_id) : r \in rows}
        grp(t) == IF t = "no_reward" THEN rows
                  ELSE {r \in rows : UserType(r.us.user_id) = t}
    IN  [t \in types |->
            [total_users |-> Cardinality({r.us.user_id : r \in grp(t)}),
             retained_users |->
                Cardinality({r.us.user_id :
                    r \in {x \in grp(t) : RetainedCase(x.us, x.ua, day)}})]]

\* GROUP BY user_type: one row per user type that has a joined row.
RewardQuery(day) ==
    LET rows == JoinedRows(day)
        types == {UserType(r.us.user_id) : r \in rows}
        grp(t) == {r \in rows : UserType(r.us.user_id) = t}
    IN  [t \in types |->
            [total_users |-> Cardinality({r.us.user_id : r \in grp(t)}),
             retained_users |->
                Cardinality({r.us.user_id :
                    r \in {x \in grp(t) : RetainedCase(x.us, x.ua, day)}})]]

(***************************************************************************)
(* scipy.stats.chi2_contingency on a 2x2 table <<<<a, b>>, <<c, d>>>>.     *)
(***************************************************************************)
RowSum(t, i) == t[i][1] + t[i][2]
ColSum(t, j) == t[1][j] + t[2][j]
Total(t) == RowSum(t, 1) + RowSum(t, 2)
Abs(x) == IF x < 0 THEN 0 - x ELSE x
Max(x, y) == IF x > y THEN x ELSE y

\* "The internally computed table of expected frequencies has a zero element":
\* an expected frequency RowSum * ColSum / Total is zero.
Chi2ZeroExpected(t) ==
    \E i \in {1, 2}, j \in {1, 2} : RowSum(t, i) * ColSum(t, j) = 0

\* The statistic as a fraction <<num, den>>.  With one degree of freedom the
\* default correction=True moves every observed count by min(0.5, |O - E|)
\* towards its expected count (Yates).
Chi2Fraction(t) ==
    LET D == Abs(t[1][1] * t[2][2] - t[1][2] * t[2][1])
        N == Total(t)
        adj == Max(0, 2 * D - N)
    IN  <<N * adj * adj,
          4 * RowSum(t, 1) * RowSum(t, 2) * ColSum(t, 1) * ColSum(t, 2)>>

\* The quotient num / den cut after k decimals, as <<floor(num * 10^k / den),
\* remainder>>: long division, so that no product leaves the integers of TLC.
RECURSIVE ScaledFloor(_, _, _)
ScaledFloor(num, den, k) ==
    IF k = 0 THEN <<num \div den, num % den>>
    ELSE LET p == ScaledFloor(num, den, k - 1)
         IN  <<p[1] * 10 + (p[2] * 10) \div den, (p[2] * 10) % den>>

\* The fraction f exceeds 3.84146.
ExceedsQuantile(f) ==
    LET p == ScaledFloor(f[1], f[2], 5)
    IN  p[1] > 384146 \/ (p[1] = 384146 /\ p[2] > 0)

\* p_value < 0.05 with one degree of freedom: the statistic exceeds 3.84146
\* (the 0.95 quantile of chi-square, 3.841459; no statistic of a table this
\* small lies between the two).
Chi2Significant(f) == ExceedsQuantile(f)

\* round(float(chi2), 4) in ten-thousandths: nearest, ties to even.
Round4(f) ==
    LET p == ScaledFloor(f[1], f[2], 4)
    IN  IF 2 * p[2] > f[2] \/ (2 * p[2] = f[2] /\ p[1] % 2 = 1)
        THEN p[1] + 1
        ELSE p[1]

ValueErrorZeroExpected ==
    [type |-> "ValueError",
     message |-> <<"The", "internally", "computed", "table", "of", "expected",
                   "frequencies", "has", "a", "zero", "element">>]

(***************************************************************************)
(* One horizon of the reward comparison loop.                              *)
(***************************************************************************)
ComparisonClasses(day) ==
    LET df == RewardQuery(day)
    IN  [t \in DOMAIN df |-> RetentionEntry(df[t])]

ContingencyTable(comparison) ==
    <<<<comparison["reward"].retained_users,
        comparison["reward"].total_users - comparison["reward"].retained_users>>,
      <<comparison["no_reward"].retained_users,
        comparison["no_reward"].total_users - comparison["no_reward"].retained_users>>>>

\* if 'reward' in comparison and 'no_reward' in comparison:
RunsChi2(comparison) ==
    "reward" \in DOMAIN comparison /\ "no_reward" \in DOMAIN comparison

StatisticalTest(comparison) ==
    LET f == Chi2Fraction(ContingencyTable(comparison))
    IN  [chi2 |-> Round4(f), significant |-> Chi2Significant(f)]

(***************************************************************************)
(* Cohort query and the list built from it.                                *)
(***************************************************************************)
user_cohorts ==
    {[user_id |-> u, cohort_week |-> SqlDateStartOfWeek(users[u]),
      signup_date |-> users[u]] : u \in DOMAIN users}

\* The rows of user_logs of a row of user_cohorts.
LogsOfCohortUser(c) == {l \in user_logs : l.user_id = c.user_id}

\* Mutant: user_activity without DISTINCT, one joined row per event.
CohortRows_PerEvent ==
    UNION {IF LogsOfCohortUser(c) = {} THEN {[uc |-> c, ua |-> NoActivity]}
           ELSE {[uc |-> c,
                  ua |-> [user_id |-> <<l.user_id>>,
                          activity_date |-> SqlDateOfStamp(l.event_timestamp)],
                  event |-> l] : l \in LogsOfCohortUser(c)} :
           c \in user_cohorts}

\* FROM user_cohorts uc LEFT JOIN user_activity ua ON uc.user_id = ua.user_id
CohortRows ==
    UNION {{[uc |-> c, ua |-> a] : a \in ActivityOf(c.user_id)} : c \in user_cohorts}

\* SUM(CASE WHEN ua.activity_date = DATE(uc.signup_date, '+n days') THEN 1 ELSE 0 END)
\* over the joined rows of one group.
SumRetained(rows, n) ==
    Cardinality({r \in rows :
                    SqlEq(r.ua.activity_date, SqlDatePlusDays(r.uc.signup_date, n))})

\* ORDER BY cohort_week: NULL sorts first, then ascending.
SqlLess(a, b) == IF a = NULL THEN b # NULL ELSE b # NULL /\ a[1] < b[1]

RECURSIVE OrderBy(_)
OrderBy(S) ==
    IF S = {} THEN <<>>
    ELSE LET m == CHOOSE x \in S : \A y \in S \ {x} : SqlLess(x, y)
         IN  <<m>> \o OrderBy(S \ {m})

\* GROUP BY uc.cohort_week ORDER BY uc.cohort_week
CohortQuery ==
    LET weeks == OrderBy({r.uc.cohort_week : r \in CohortRows})
        grp(w) == {r \in CohortRows : r.uc.cohort_week = w}
    IN  [i \in DOMAIN weeks |->
            [cohort_week |-> weeks[i],
             cohort_size |-> Cardinality({r.uc.user_id : r \in grp(weeks[i])}),
             d1_retained |-> SumRetained(grp(weeks[i]), 1),
             d7_retained |-> SumRetained(grp(weeks[i]), 7),
             d30_retained |-> SumRetained(grp(weeks[i]), 30)]]

\* str(row['cohort_week']): a NULL column reads as None.
PyStr(v) == IF v = NULL THEN "None" ELSE ToString(v[1])

CohortList ==
    LET df == CohortQuery
    IN  [i \in DOMAIN df |->
            [cohort_week |-> PyStr(df[i].cohort_week),
             cohort_size |-> df[i].cohort_size,
             d1_retained |-> df[i].d1_retained,
             d7_retained |-> df[i].d7_retained,
             d30_retained |-> df[i].d30_retained]]

(***************************************************************************)
(* calculate_retention, one action per query it sends and one for the      *)
(* write of the document.                                                  *)
(***************************************************************************)
store == <<users, user_logs, ab_test_results, temp_clusters>>
seg_vars == <<n_clusters, seg_pc, seg_df, elbow_data, seg_labels, segment_stats,
              segment_retention, hte_analysis, seg_error, seg_file>>
dash_vars == <<dash_out>>
gen_vars == <<gen_pc, gen_error>>
ab_vars == <<ab_pc, ab_df, ab_ztest, ab_results, ab_error, ab_file>>
ret_vars == <<ret_pc, ret_i, overall_retention, reward_comparison,
              cohort_analysis, ret_error, retention_file>>

\* Lines 30-36: connect, empty dicts.
RetCall ==
    /\ ret_pc = "idle"
    /\ ret_pc' = "overall"
    /\ ret_i' = 1
    /\ overall_retention' = EmptyDict
    /\ reward_comparison' = EmptyDict
    /\ cohort_analysis' = <<>>
    /\ ret_error' = NoError
    /\ UNCHANGED <<ab_vars, seg_vars, dash_vars, clock, gen_vars>>
    /\ UNCHANGED <<store, retention_file>>

\* One iteration of the loop of lines 38-71.
RetOverall ==
    /\ ret_pc = "overall"
    /\ LET day == retention_days[ret_i]
       IN  overall_retention' =
              (DKey(day) :> RetentionEntry(OverallQuery(day))) @@ overall_retention
    /\ IF ret_i < Len(retention_days)
          THEN ret_i' = ret_i + 1 /\ ret_pc' = "overall"
          ELSE ret_i' = 1 /\ ret_pc' = "reward"
    /\ UNCHANGED <<ab_vars, seg_vars, dash_vars, clock, gen_vars>>
    /\ UNCHANGED <<store, reward_comparison, cohort_analysis, ret_error, retention_file>>

\* One iteration of the loop of lines 77-141; chi2_contingency may raise.
RetReward ==
    /\ ret_pc = "reward"
    /\ LET day == retention_days[ret_i]
           comparison == ComparisonClasses(day)
       IN  IF RunsChi2(comparison) /\ Chi2ZeroExpected(ContingencyTable(comparison))
           THEN /\ ret_pc' = "failed"
                /\ ret_error' = ValueErrorZeroExpected
                /\ UNCHANGED <<ret_i, reward_comparison>>
           ELSE /\ reward_comparison' =
                      (DKey(day) :>
                          IF RunsChi2(comparison)
                          THEN ("statistical_test" :> StatisticalTest(comparison))
                               @@ comparison
                          ELSE comparison) @@ reward_comparison
                /\ IF ret_i < Len(retention_days)
                      THEN ret_i' = ret_i + 1 /\ ret_pc' = "reward"
                      ELSE ret_i' = 1 /\ ret_pc' = "cohort"
                /\ UNCHANGED ret_error
    /\ UNCHANGED <<ab_vars, seg_vars, dash_vars, clock, gen_vars>>
    /\ UNCHANGED <<store, overall_retention, cohort_analysis, retention_file>>

\* Lines 145-183: cohort query, list, close.
RetCohort ==
    /\ ret_pc = "cohort"
    /\ cohort_analysis' = CohortList
    /\ ret_pc' = "save"
    /\ UNCHANGED <<ab_vars, seg_vars, dash_vars, clock, gen_vars>>
    /\ UNCHANGED <<store, ret_i, overall_retention, reward_comparison, ret_error,
                   retention_file>>

\* Lines 186-201: compile the results and write the document.
RetSave ==
    /\ ret_pc = "save"
    /\ retention_file' =
          [present |-> TRUE,
           doc |-> [overall_retention |-> overall_retention,
                    reward_comparison |-> reward_comparison,
                    cohort_analysis |-> cohort_analysis,
                    analysis_timestamp |-> Today]]
    /\ ret_pc' = "done"
    /\ UNCHANGED <<ab_vars, seg_vars, dash_vars, clock, gen_vars>>
    /\ UNCHANGED <<store, ret_i, overall_retention, reward_comparison,
                   cohort_analysis, ret_error>>

calculate_retention == RetCall \/ RetOverall \/ RetReward \/ RetCohort \/ RetSave

(***************************************************************************)
(* analyze_ab_test.  Proportions are kept as fractions; Cohen's h, the     *)
(* confidence interval and the power (asin, sqrt, the normal CDF) are not  *)
(* part of the results record of the model.                                *)
(***************************************************************************)
Sum(f) ==
    LET RECURSIVE S(_)
        S(D) == IF D = {} THEN 0
                ELSE LET x == CHOOSE y \in D : TRUE IN f[x] + S(D \ {x})
    IN  S(DOMAIN f)

\* SELECT group_name, COUNT(*), SUM(is_converted) ... GROUP BY group_name:
\* one row per group name that has a row.
AbQuery ==
    LET names == {ab_test_results[u].group_name : u \in DOMAIN ab_test_results}
        members(g) == {u \in DOMAIN ab_test_results : ab_test_results[u].group_name = g}
    IN  [g \in names |->
            [total_users |-> Cardinality(members(g)),
             conversions |-> Sum([u \in members(g) |-> ab_test_results[u].is_converted])]]

\* df[df['group_name'] == g].iloc[0] on a frame without a row for g.
IndexErrorOutOfBounds ==
    [type |-> "IndexError",
     message |-> <<"single", "positional", "indexer", "is", "out-of-bounds">>]

\* se_pool > 0: p_pool * (1 - p_pool) * (1/n_a + 1/n_b) is positive.
SePoolPositive(n_a, conv_a, n_b, conv_b) ==
    0 < conv_a + conv_b /\ conv_a + conv_b < n_a + n_b

\* p_b - p_a as a fraction over n_a * n_b.
DiffNum(n_a, conv_a, n_b, conv_b) == conv_b * n_a - conv_a * n_b

Sign(x) == IF x > 0 THEN 1 ELSE IF x < 0 THEN 0 - 1 ELSE 0

\* z_score = (p_b - p_a) / se_pool if se_pool > 0 else 0, as its sign and its
\* square <<num, den>>.
ZScore(n_a, conv_a, n_b, conv_b) ==
    IF SePoolPositive(n_a, conv_a, n_b, conv_b)
    THEN LET d == DiffNum(n_a, conv_a, n_b, conv_b)
             c == conv_a + conv_b
             n == n_a + n_b
         IN  [sign |-> Sign(d), sq |-> <<d * d * n, n_a * n_b * c * (n - c)>>]
    ELSE [sign |-> 0, sq |-> <<0, 1>>]

\* p_value_z = 2 * (1 - norm.cdf(abs(z_score))) < 0.05: |z| exceeds 1.959964,
\* its square 3.84146.
ZSignificant(z) == ExceedsQuantile(z.sq)

\* 'p_value': round(float(p_value_z), 4), kept as its place beside 0.05: the
\* rounded value is below 0.05 when p < 0.04995, that is z^2 > 3.84313646; it
\* is above when p >= 0.05005, that is z^2 <= 3.83978294; between the two it
\* is 0.05 itself.
PValueStored(z) ==
    LET p == ScaledFloor(z.sq[1], z.sq[2], 7)
    IN  IF p[1] >= 38431365 THEN "<0.05"
        ELSE IF p[1] <= 38397829 THEN ">0.05"
        ELSE "0.05"

\* Lines 52-69.
ZTestLocals(df) ==
    LET n_a == df["A"].total_users
        n_b == df["B"].total_users
        conv_a == df["A"].conversions
        conv_b == df["B"].conversions
        z == ZScore(n_a, conv_a, n_b, conv_b)
    IN  [n_a |-> n_a, n_b |-> n_b, conv_a |-> conv_a, conv_b |-> conv_b,
         z_score |-> z, significant |-> ZSignificant(z)]

\* [[conv_a, n_a - conv_a], [conv_b, n_b - conv_b]]
AbContingencyTable(l) ==
    <<<<l.conv_a, l.n_a - l.conv_a>>, <<l.conv_b, l.n_b - l.conv_b>>>>

\* ((p_b - p_a) / p_a * 100) if p_a > 0 else 0, rounded to 2 places.
RelativeLift(l) ==
    IF l.conv_a > 0
    THEN RoundDiv(DiffNum(l.n_a, l.conv_a, l.n_b, l.conv_b) * 10000, l.conv_a * l.n_b)
    ELSE 0

\* (p_b - p_a) * 100, rounded to 2 places.
AbsoluteLift(l) ==
    RoundDiv(DiffNum(l.n_a, l.conv_a, l.n_b, l.conv_b) * 10000, l.n_a * l.n_b)

\* Mutant: the direction of the difference is not looked at.
Recommendation_NoDirection(l) ==
    IF l.significant THEN "Deploy treatment" ELSE "Keep control or run longer test"

\* 'Deploy treatment' if (p_value_z < 0.05 and p_b > p_a) else ...
Recommendation(l) ==
    IF l.significant /\ DiffNum(l.n_a, l.conv_a, l.n_b, l.conv_b) > 0
    THEN "Deploy treatment"
    ELSE "Keep control or run longer test"

\* round(p, 4) and round(p * 100, 2): the same digits, in ten-thousandths and
\* in hundredths of a percent.
GroupEntry(n, conv) ==
    [total_users |-> n, conversions |-> conv,
     conversion_rate |-> RoundDiv(conv * 10000, n),
     conversion_rate_pct |-> RoundDiv(conv * 10000, n)]

\* Lines 120-158.
CompileResults(l) ==
    LET f == Chi2Fraction(AbContingencyTable(l))
    IN  [group_a |-> GroupEntry(l.n_a, l.conv_a),
         group_b |-> GroupEntry(l.n_b, l.conv_b),
         statistical_tests |->
            [z_test |-> [z_score |-> l.z_score,
                         p_value |-> PValueStored(l.z_score),
                         significant |-> l.significant],
             chi_square_test |->
                [chi_square |-> Round4(f), degrees_of_freedom |-> 1,
                 significant |-> Chi2Significant(f)]],
         effect_size |->
            [relative_lift_pct |-> RelativeLift(l),
             absolute_lift_pct |-> AbsoluteLift(l)],
         recommendation |-> Recommendation(l),
         analysis_timestamp |-> Today]

NoLocals == [n_a |-> 0, n_b |-> 0, conv_a |-> 0, conv_b |-> 0,
             z_score |-> [sign |-> 0, sq |-> <<0, 1>>], significant |-> FALSE]

\* Lines 31-46: the query, close.
AbCall ==
    /\ ab_pc = "idle"
    /\ ab_df' = AbQuery
    /\ ab_pc' = "extract"
    /\ ab_error' = NoError
    /\ UNCHANGED <<store, ret_vars, seg_vars, dash_vars, clock, gen_vars,
                   ab_ztest, ab_results, ab_file>>

\* Mutant: the document is opened for writing before the rows are looked at,
\* so a run that aborts leaves an empty document.
AbZTest_OpensFileFirst ==
    /\ ab_pc = "extract"
    /\ IF "A" \notin DOMAIN ab_df \/ "B" \notin DOMAIN ab_df
       THEN /\ ab_pc' = "failed"
            /\ ab_error' = IndexErrorOutOfBounds
            /\ ab_file' = [present |-> TRUE, doc |-> EmptyDict]
            /\ UNCHANGED ab_ztest
       ELSE /\ ab_ztest' = ZTestLocals(ab_df)
            /\ ab_pc' = "chi2"
            /\ UNCHANGED <<ab_error, ab_file>>
    /\ UNCHANGED <<store, ret_vars, seg_vars, dash_vars, clock, gen_vars,
                   ab_df, ab_results>>

\* Lines 49-73: the two rows, the proportions and the z-test.
AbZTest ==
    /\ ab_pc = "extract"
    /\ IF "A" \notin DOMAIN ab_df \/ "B" \notin DOMAIN ab_df
       THEN /\ ab_pc' = "failed"
            /\ ab_error' = IndexErrorOutOfBounds
            /\ UNCHANGED ab_ztest
       ELSE /\ ab_ztest' = ZTestLocals(ab_df)
            /\ ab_pc' = "chi2"
            /\ UNCHANGED ab_error
    /\ UNCHANGED <<store, ret_vars, seg_vars, dash_vars, clock, gen_vars,
                   ab_df, ab_results, ab_file>>

\* Lines 75-158: chi2_contingency, which may raise, and the results dict.
AbChi2 ==
    /\ ab_pc = "chi2"
    /\ IF Chi2ZeroExpected(AbContingencyTable(ab_ztest))
       THEN /\ ab_pc' = "failed"
            /\ ab_error' = ValueErrorZeroExpected
            /\ UNCHANGED ab_results
       ELSE /\ ab_results' = CompileResults(ab_ztest)
            /\ ab_pc' = "save"
            /\ UNCHANGED ab_error
    /\ UNCHANGED <<store, ret_vars, seg_vars, dash_vars, clock, gen_vars,
                   ab_df, ab_ztest, ab_file>>

\* Lines 160-169: write the document.
AbSave ==
    /\ ab_pc = "save"
    /\ ab_file' = [present |-> TRUE, doc |-> ab_results]
    /\ ab_pc' = "done"
    /\ UNCHANGED <<store, ret_vars, seg_vars, dash_vars, clock, gen_vars,
                   ab_df, ab_ztest, ab_results, ab_error>>

analyze_ab_test == AbCall \/ AbZTest \/ AbChi2 \/ AbSave

(***************************************************************************)
(* analyze_segments.  The feature vectors are kept exactly (the two        *)
(* quotients as pairs); K-means is kept by what it guarantees: points with *)
(* the same vector get the same label, and a fit with k centres on d       *)
(* distinct points uses min(k, d) labels.  Inertia, silhouette values, the *)
(* scaler's mean and scale and feature_importance are not part of the      *)
(* records of the model.                                                   *)
(***************************************************************************)
K_range == 2..7

Min(x, y) == IF x < y THEN x ELSE y

\* The elements of a finite set of integers, ascending.
RECURSIVE Ascending(_)
Ascending(S) ==
    IF S = {} THEN <<>>
    ELSE LET m == CHOOSE x \in S : \A y \in S : x <= y
         IN  <<m>> \o Ascending(S \ {m})

\* FROM users u LEFT JOIN user_logs ul ON u.user_id = ul.user_id
LogsOf(uid) == {l \in user_logs : l.user_id = uid}

\* The wall clock counts the time of day in quarters of a day; the runs of
\* the model happen at 06:00 or at 18:00.
QuarterDays == 4
ClockTimes == {1, 3}

\* JULIANDAY('now') - JULIANDAY(u.signup_date), in quarter days: JULIANDAY('now')
\* carries the time of day, JULIANDAY of a date is its midnight.
DaysSinceSignup(signup_date) == QuarterDays * (Today - signup_date) + clock

\* CASE WHEN days_since_signup > 0 THEN CAST(n AS FLOAT) / days_since_signup
\* ELSE 0 END: the quotient n / days is kept as the pair
\* (QuarterDays * n, quarter days since signup), and every zero as (0, 1).
PerDay(n, signup_date) ==
    IF DaysSinceSignup(signup_date) > 0 /\ n > 0
    THEN <<QuarterDays * n, DaysSinceSignup(signup_date)>>
    ELSE <<0, 1>>

\* One row of the feature query (lines 40-69) after fillna(0) (line 87), the
\* columns of feature_cols.
FeatureRow(uid) ==
    LET ls == LogsOf(uid)
        rewards == {l \in ls : l.event_name = "reward_earned"}
        total_events == Cardinality(ls)
        active_days == Cardinality({SqlDateOfStamp(l.event_timestamp) : l \in ls})
    IN  [total_events |-> total_events,
         active_days |-> active_days,
         reward_count |-> Cardinality(rewards),
         total_reward_value |-> Sum([l \in rewards |-> l.value[1]]),
         activities_completed |->
            Cardinality({l \in ls : l.event_name = "activity_completed"}),
         avg_daily_events |-> PerDay(total_events, users[uid]),
         activity_ratio |-> PerDay(active_days, users[uid])]

\* Mutant: the events joined with an inner join.
FeatureQuery_InnerJoin ==
    [u \in {x \in DOMAIN users : LogsOf(x) # {}} |-> FeatureRow(u)]

\* GROUP BY u.user_id over the LEFT JOIN: one row per user.
FeatureQuery == [u \in DOMAIN users |-> FeatureRow(u)]

\* len(df), and the number of distinct rows of X.
SampleCount == Cardinality(DOMAIN seg_df)
DistinctPoints == {seg_df[u] : u \in DOMAIN seg_df}

\* The number of labels KMeans(n_clusters=k).fit uses.
LabelCount(k) == Min(k, Cardinality(DistinctPoints))

ValueErrorNoSamples ==
    [type |-> "ValueError",
     message |-> <<"Found", "array", "with", "0", "sample(s)">>]
ValueErrorFewSamples ==
    [type |-> "ValueError",
     message |-> <<"n_samples", "should", "be", ">=", "n_clusters">>]
ValueErrorLabelCount ==
    [type |-> "ValueError",
     message |-> <<"Number", "of", "labels", "is", "invalid">>]

\* KMeans(n_clusters=k).fit(X_scaled) raises.
KMeansRaises(k) == SampleCount < k

\* silhouette_score(X_scaled, labels) raises: it needs 2 <= labels <= n - 1.
SilhouetteRaises(k) == LabelCount(k) < 2 \/ LabelCount(k) > SampleCount - 1

\* Lines 92-105: the exception of the scaler or of the first k of K_range that
\* raises, or NoError.
SweepError ==
    LET bad == {k \in K_range : KMeansRaises(k) \/ SilhouetteRaises(k)}
    IN  IF SampleCount = 0 THEN ValueErrorNoSamples
        ELSE IF bad = {} THEN NoError
        ELSE IF KMeansRaises(Ascending(bad)[1]) THEN ValueErrorFewSamples
        ELSE ValueErrorLabelCount

\* Lines 107-110: one entry per k of K_range, in the order of the range; the
\* inertia and the silhouette score of each fit are floats the model leaves out.
ElbowData ==
    LET ks == Ascending(K_range)
    IN  [i \in DOMAIN ks |-> [k |-> ks[i]]]

\* Mutant: the final model reuses the loop variable k of the sweep.
FinalK_LoopVariable == elbow_data[Len(elbow_data)].k

\* Line 118: the k of the final model.
FinalK == n_clusters

\* The label vectors kmeans.fit_predict can return for k clusters.
Labellings(k) ==
    {[u \in DOMAIN seg_df |-> g[seg_df[u]]] :
        g \in {h \in [DistinctPoints -> 0..(k - 1)] :
                  Cardinality(Range(h)) = LabelCount(k)}}

\* df[df['cluster'] == cluster_id]
ClusterDf(lab, cluster_id) == {u \in DOMAIN lab : lab[u] = cluster_id}

\* round(column.mean(), 2) in hundredths; the mean of an empty frame is NaN.
NaN == <<>>
RoundMean(total, size) == IF size = 0 THEN NaN ELSE <<RoundDiv(total * 100, size)>>

\* The sum of the quotients f[u], u in S, as a pair (numerator, denominator).
RECURSIVE SumQuotients(_, _)
SumQuotients(f, S) ==
    IF S = {} THEN <<0, 1>>
    ELSE LET u == CHOOSE x \in S : TRUE
             rest == SumQuotients(f, S \ {u})
         IN  IF f[u][1] = 0 THEN rest
             ELSE <<f[u][1] * rest[2] + rest[1] * f[u][2], f[u][2] * rest[2]>>

\* round(cluster_df[col].mean(), 2) for a column of quotients.
RoundMeanQuotient(total, size) ==
    IF size = 0 THEN NaN ELSE <<RoundDiv(total[1] * 100, total[2] * size)>>

\* Lines 126-138.
SegmentStats(lab, cluster_id) ==
    LET cluster_df == ClusterDf(lab, cluster_id)
        size == Cardinality(cluster_df)
        mean(col) == RoundMean(Sum([u \in cluster_df |-> seg_df[u][col]]), size)
    IN  [cluster_id |-> cluster_id,
         size |-> size,
         percentage |-> RoundDiv(size * 10000, SampleCount),
         avg_total_events |-> mean("total_events"),
         avg_active_days |-> mean("active_days"),
         avg_reward_count |-> mean("reward_count"),
         avg_reward_value |-> mean("total_reward_value"),
         avg_activities |-> mean("activities_completed"),
         avg_daily_events |->
            RoundMeanQuotient(
                SumQuotients([u \in cluster_df |-> seg_df[u].avg_daily_events],
                             cluster_df), size)]

\* df[['user_id', 'cluster']].to_sql('temp_clusters', conn, if_exists='replace'):
\* the table is dropped if it exists, created, filled and committed.
ToSqlReplace(lab) ==
    [exists |-> TRUE, rows |-> {[user_id |-> u, cluster |-> lab[u]] : u \in DOMAIN lab}]

\* Mutant: the horizon left out of the WHERE clause.
SegEligibleWhere_NoHorizon(u) == SqlLe(SqlDate(u.signup_date), SqlDateNow)

\* WHERE DATE(u.signup_date, '+7 days') <= DATE('now')
SegEligibleWhere(u) == SqlLe(SqlDatePlusDays(u.signup_date, 7), SqlDateNow)

\* Mutant: the activity of the sixth day counts.
SegRetainedCase_SixDays(u, ua) ==
    SqlEq(ua.activity_date, SqlDatePlusDays(u.signup_date, 6))

\* CASE WHEN DATE(ua.activity_date) = DATE(u.signup_date, '+7 days')
SegRetainedCase(u, ua) == SqlEq(ua.activity_date, SqlDatePlusDays(u.signup_date, 7))

\* FROM users u JOIN temp_clusters tc ... LEFT JOIN user_activity ua ... WHERE ...
SegJoinedRows ==
    UNION {{[u |-> x, tc |-> t, ua |-> a] :
                t \in {r \in temp_clusters.rows : r.user_id = x.user_id},
                a \in ActivityOf(x.user_id)} :
            x \in {y \in user_signup : SegEligibleWhere(y)}}

\* Lines 153-174: GROUP BY tc.cluster, one row per cluster that has a joined
\* row, in the order of the cluster ids.
SegRetentionQuery ==
    LET rows == SegJoinedRows
        clusters == Ascending({r.tc.cluster : r \in rows})
        grp(c) == {r \in rows : r.tc.cluster = c}
    IN  [i \in DOMAIN clusters |->
            [cluster |-> clusters[i],
             total_users |-> Cardinality({r.u.user_id : r \in grp(clusters[i])}),
             d7_retained |->
                Cardinality({r.u.user_id :
                    r \in {x \in grp(clusters[i]) : SegRetainedCase(x.u, x.ua)}})]]

\* Lines 176-185.
SegmentRetention ==
    LET retention_df == SegRetentionQuery
    IN  [i \in DOMAIN retention_df |->
            [cluster_id |-> retention_df[i].cluster,
             total_users |-> retention_df[i].total_users,
             d7_retained |-> retention_df[i].d7_retained,
             d7_retention_rate |->
                RetentionRate(retention_df[i].d7_retained, retention_df[i].total_users)]]

\* Lines 190-201: FROM ab_test_results ab JOIN temp_clusters tc
\* GROUP BY tc.cluster, ab.group_name: one row per pair that has a row.
HteQuery ==
    LET joined == {t \in temp_clusters.rows : t.user_id \in DOMAIN ab_test_results}
        group_of(t) == ab_test_results[t.user_id].group_name
        keys == {<<t.cluster, group_of(t)>> : t \in joined}
        members(key) ==
            {t.user_id : t \in {x \in joined : <<x.cluster, group_of(x)>> = key}}
    IN  [key \in keys |->
            [total_users |-> Cardinality(members(key)),
             conversions |->
                Sum([u \in members(key) |-> ab_test_results[u].is_converted])]]

\* hte_df[hte_df['cluster'] == cluster_id]: the group names of its rows.
ClusterData(hte_df, cluster_id) == {key[2] : key \in {x \in DOMAIN hte_df : x[1] = cluster_id}}

\* Mutant: the control rate is not looked at; the lift is the treatment rate
\* where the control rate is zero.
HteLift_NoZeroGuard(group_a, group_b) ==
    IF group_a.conversions > 0
    THEN RoundDiv((group_b.conversions * group_a.total_users
                     - group_a.conversions * group_b.total_users) * 10000,
                  group_a.conversions * group_b.total_users)
    ELSE RoundDiv(group_b.conversions * 10000, group_b.total_users)

\* Lines 211-213 and 219: ((conv_rate_b - conv_rate_a) / conv_rate_a * 100)
\* if conv_rate_a > 0 else 0, rounded to 2 places.
HteLift(group_a, group_b) ==
    IF group_a.conversions > 0
    THEN RoundDiv((group_b.conversions * group_a.total_users
                     - group_a.conversions * group_b.total_users) * 10000,
                  group_a.conversions * group_b.total_users)
    ELSE 0

\* Lines 215-220.
HteEntry(hte_df, cluster_id) ==
    LET group_a == hte_df[<<cluster_id, "A">>]
        group_b == hte_df[<<cluster_id, "B">>]
    IN  [cluster_id |-> cluster_id,
         control_conversion_rate |->
            RoundDiv(group_a.conversions * 10000, group_a.total_users),
         treatment_conversion_rate |->
            RoundDiv(group_b.conversions * 10000, group_b.total_users),
         lift_pct |-> HteLift(group_a, group_b)]

\* Mutant: a cluster is reported as soon as it has a row.
HteReported_AnyRow(hte_df, cluster_id) ==
    Cardinality(ClusterData(hte_df, cluster_id)) >= 1

\* if len(cluster_data) == 2:
HteReported(hte_df, cluster_id) == Cardinality(ClusterData(hte_df, cluster_id)) = 2

\* .iloc[0] of line 208 or 209 finds no row.
HteRaises(hte_df, cluster_id) ==
    /\ HteReported(hte_df, cluster_id)
    /\ ~({"A", "B"} \subseteq ClusterData(hte_df, cluster_id))

\* range(n_clusters) as a sequence.
ClusterIds(k) == [i \in 1..k |-> i - 1]

base_tables == <<users, user_logs, ab_test_results>>
engine_vars == <<ret_vars, ab_vars, dash_vars>>

\* Lines 35-89: connect, the feature query, fillna, X.
SegCall(k) ==
    /\ seg_pc = "idle"
    /\ n_clusters' = k
    /\ seg_df' = FeatureQuery
    /\ seg_pc' = "sweep"
    /\ elbow_data' = <<>>
    /\ seg_labels' = EmptyDict
    /\ segment_stats' = <<>>
    /\ segment_retention' = <<>>
    /\ hte_analysis' = <<>>
    /\ seg_error' = NoError
    /\ UNCHANGED <<store, engine_vars, clock, gen_vars, seg_file>>

\* Lines 92-114: the scaler and the sweep over K_range, either of which may raise.
SegSweep ==
    /\ seg_pc = "sweep"
    /\ seg_error' = SweepError
    /\ seg_pc' = IF SweepError = NoError THEN "fit" ELSE "failed"
    /\ elbow_data' = IF SweepError = NoError THEN ElbowData ELSE <<>>
    /\ UNCHANGED <<store, engine_vars, clock, gen_vars, n_clusters, seg_df, seg_labels,
                   segment_stats, segment_retention, hte_analysis, seg_file>>

\* Lines 117-145: the final fit, which may raise, and the statistics of each
\* cluster id.
SegFit ==
    /\ seg_pc = "fit"
    /\ IF KMeansRaises(FinalK)
       THEN /\ seg_pc' = "failed"
            /\ seg_error' = ValueErrorFewSamples
            /\ UNCHANGED <<seg_labels, segment_stats>>
       ELSE /\ \E lab \in Labellings(FinalK) :
                  /\ seg_labels' = lab
                  /\ segment_stats' =
                        [i \in 1..n_clusters |->
                            SegmentStats(lab, ClusterIds(n_clusters)[i])]
            /\ seg_pc' = "retention"
            /\ UNCHANGED seg_error
    /\ UNCHANGED <<store, engine_vars, clock, gen_vars, n_clusters, seg_df, elbow_data,
                   segment_retention, hte_analysis, seg_file>>

\* Line 151: the cluster assignments written to the store.
SegToSql ==
    /\ seg_pc = "retention"
    /\ temp_clusters' = ToSqlReplace(seg_labels)
    /\ seg_pc' = "query"
    /\ UNCHANGED <<base_tables, engine_vars, clock, gen_vars, n_clusters, seg_df,
                   elbow_data, seg_labels, segment_stats, segment_retention,
                   hte_analysis, seg_error, seg_file>>

\* Lines 153-185: the retention query and the list built from it.
SegRetention ==
    /\ seg_pc = "query"
    /\ segment_retention' = SegmentRetention
    /\ seg_pc' = "hte"
    /\ UNCHANGED <<store, engine_vars, clock, gen_vars, n_clusters, seg_df, elbow_data,
                   seg_labels, segment_stats, hte_analysis, seg_error,
                   seg_file>>

\* Lines 190-222: the HTE query and the loop over the cluster ids; .iloc[0]
\* may raise.
SegHte ==
    /\ seg_pc = "hte"
    /\ LET hte_df == HteQuery
           reported == SelectSeq(ClusterIds(n_clusters),
                                 LAMBDA c : HteReported(hte_df, c))
       IN  IF \E c \in Range(ClusterIds(n_clusters)) : HteRaises(hte_df, c)
           THEN /\ seg_pc' = "failed"
                /\ seg_error' = IndexErrorOutOfBounds
                /\ UNCHANGED hte_analysis
           ELSE /\ hte_analysis' =
                      [i \in DOMAIN reported |-> HteEntry(hte_df, reported[i])]
                /\ seg_pc' = "drop"
                /\ UNCHANGED seg_error
    /\ UNCHANGED <<store, engine_vars, clock, gen_vars, n_clusters, seg_df, elbow_data,
                   seg_labels, segment_stats, segment_retention, seg_file>>

\* Lines 225-226: DROP TABLE IF EXISTS temp_clusters, close.
SegDrop ==
    /\ seg_pc = "drop"
    /\ temp_clusters' = NoTable
    /\ seg_pc' = "save"
    /\ UNCHANGED <<base_tables, engine_vars, clock, gen_vars, n_clusters, seg_df,
                   elbow_data, seg_labels, segment_stats, segment_retention,
                   hte_analysis, seg_error, seg_file>>

\* Lines 229-248.
SegResults ==
    [n_clusters |-> n_clusters,
     total_users |-> SampleCount,
     elbow_analysis |-> elbow_data,
     segment_statistics |-> segment_stats,
     segment_retention |-> segment_retention,
     heterogeneous_treatment_effects |-> hte_analysis,
     analysis_timestamp |-> Today]

\* Lines 228-252: compile the results and write the document.
SegSave ==
    /\ seg_pc = "save"
    /\ seg_file' = [present |-> TRUE, doc |-> SegResults]
    /\ seg_pc' = "done"
    /\ UNCHANGED <<store, engine_vars, clock, gen_vars, n_clusters, seg_df, elbow_data,
                   seg_labels, segment_stats, segment_retention, hte_analysis,
                   seg_error>>

\* n_clusters as the callers of the bounds pass it; the default is 3.
NClusterChoices == {2, 3}

analyze_segments ==
    \/ \E k \in NClusterChoices : SegCall(k)
    \/ SegSweep
    \/ SegFit
    \/ SegToSql
    \/ SegRetention
    \/ SegHte
    \/ SegDrop
    \/ SegSave

(***************************************************************************)
(* Event stores: users 1..n with a signup date each, and at most MaxLogs   *)
(* events of those users.                                                  *)
(***************************************************************************)
RECURSIVE SubsetsUpTo(_, _)
SubsetsUpTo(S, n) ==
    IF n = 0 THEN {{}}
    ELSE LET P == SubsetsUpTo(S, n - 1)
         IN  P \cup {T \cup {x} : T \in P, x \in S}

UserTables == UNION {[1..n -> SignupDays] : n \in 0..MaxUsers}

LogTables(ut) == SubsetsUpTo({r \in LogRows : r.user_id \in DOMAIN ut}, MaxLogs)

AbTables == UNION {[1..n -> AbRows] : n \in 0..MaxAbUsers}

InitStore ==
    /\ clock = 1
    /\ users \in UserTables
    /\ user_logs \in LogTables(users)
    /\ ab_test_results = EmptyDict
    /\ temp_clusters = NoTable

InitRet ==
    /\ ret_pc = "idle"
    /\ ret_i = 1
    /\ overall_retention = EmptyDict
    /\ reward_comparison = EmptyDict
    /\ cohort_analysis = <<>>
    /\ ret_error = NoError
    /\ retention_file = NoFile

InitAb ==
    /\ ab_pc = "idle"
    /\ ab_df = EmptyDict
    /\ ab_ztest = NoLocals
    /\ ab_results = EmptyDict
    /\ ab_error = NoError
    /\ ab_file = NoFile

InitSeg ==
    /\ n_clusters = 0
    /\ seg_pc = "idle"
    /\ seg_df = EmptyDict
    /\ elbow_data = <<>>
    /\ seg_labels = EmptyDict
    /\ segment_stats = <<>>
    /\ segment_retention = <<>>
    /\ hte_analysis = <<>>
    /\ seg_error = NoError
    /\ seg_file = NoFile

InitDash == dash_out = NoOutput

InitGen == gen_pc = "idle" /\ gen_error = NoError

\* The retention engine on every event store of the bounds.
Init == InitStore /\ InitRet /\ InitAb /\ InitSeg /\ InitDash /\ InitGen

Next == calculate_retention

Spec == Init /\ [][Next]_vars

\* The significance engine on every ab_test_results table of the bounds.
InitAbStore ==
    /\ clock = 1
    /\ users = EmptyDict
    /\ user_logs = {}
    /\ ab_test_results \in AbTables
    /\ temp_clusters = NoTable

InitSig == InitAbStore /\ InitRet /\ InitAb /\ InitSeg /\ InitDash /\ InitGen

NextSig == analyze_ab_test

SpecSig == InitSig /\ [][NextSig]_vars

(***************************************************************************)
(* Event stores for the segmentation engine: users 1..n, of whom users 1   *)
(* and 2 vary in signup date, events and AB assignment and the others      *)
(* signed up a week ago and have no event; users 3 and 4 are or are not    *)
(* an AB panel of a converted control user and an unconverted treatment    *)
(* user.  group_name is TEXT NOT NULL in the schema, so a third name is a  *)
(* row the store can hold.                                                 *)
(***************************************************************************)
MaxSegUsers == 7

SegUserCounts == {MaxSegUsers - 1, MaxSegUsers}
SegSignupDays == {Today - 7, Today - 6}
SegAbRows ==
    [group_name : GroupNames, is_converted : {0, 1}]
        \cup {[group_name |-> "C", is_converted |-> 1]}
SegAbOptions == {<<>>} \cup {<<r>> : r \in SegAbRows}
FirstProfiles ==
    [signup_date : SegSignupDays,
     events : {"none", "day7", "day6", "day0_reward"},
     ab : SegAbOptions]
SecondProfiles ==
    [signup_date : {Today - 7}, events : {"none", "day7"}, ab : SegAbOptions]

\* The events of a profile, as rows of user_logs with their value column.
ProfileLogs(uid, p) ==
    LET row(name, d, v) ==
            [user_id |-> uid, event_name |-> name,
             event_timestamp |-> [date |-> d, time |-> "06:00"], value |-> v]
    IN  CASE p.events = "none" -> {}
          [] p.events = "day7" -> {row("app_open", p.signup_date + 7, NULL)}
          [] p.events = "day6" -> {row("app_open", p.signup_date + 6, NULL)}
          [] p.events = "day0_reward" -> {row("reward_earned", p.signup_date, <<20>>)}

ProfileAb(uid, p) == IF p.ab = <<>> THEN EmptyDict ELSE uid :> p.ab[1]

AbPanel ==
    (3 :> [group_name |-> "A", is_converted |-> 1])
        @@ (4 :> [group_name |-> "B", is_converted |-> 0])

InitSegStore ==
    \E n \in SegUserCounts, p1 \in FirstProfiles, p2 \in SecondProfiles,
       panel \in {EmptyDict, AbPanel} :
        /\ users = [u \in 1..n |->
                        IF u = 1 THEN p1.signup_date
                        ELSE IF u = 2 THEN p2.signup_date ELSE Today - 7]
        /\ user_logs = ProfileLogs(1, p1) \cup ProfileLogs(2, p2)
        /\ ab_test_results = ProfileAb(1, p1) @@ ProfileAb(2, p2) @@ panel
        /\ temp_clusters = NoTable
        /\ clock \in ClockTimes

\* The segmentation engine on every such store, with each n_clusters.
InitSegRun ==
    InitSegStore /\ InitRet /\ InitAb /\ InitSeg /\ InitDash /\ InitGen

NextSeg == analyze_segments

SpecSeg == InitSegRun /\ [][NextSeg]_vars

(***************************************************************************)
(* Runs of analyze_ab_test one after another, each on the database its     *)
(* db_path names, all writing the same output_path.                        *)
(***************************************************************************)
\* Line 169 or the exception leaving the function: the locals are gone.
AbReturn ==
    /\ ab_pc \in {"done", "failed"}
    /\ ab_pc' = "idle"
    /\ ab_df' = EmptyDict
    /\ ab_ztest' = NoLocals
    /\ ab_results' = EmptyDict
    /\ ab_error' = NoError
    /\ UNCHANGED <<store, ret_vars, seg_vars, dash_vars, clock, gen_vars, ab_file>>

\* The tables that differ from t in their last row: one more row, one row
\* less, or another last row.
NeighbourTables(t) ==
    LET n == Cardinality(DOMAIN t)
        without == [u \in 1..(n - 1) |-> t[u]]
    IN  {(n + 1 :> r) @@ t : r \in {x \in AbRows : n < MaxAbUsers}}
            \cup {without : k \in {n} \ {0}}
            \cup {(n :> r) @@ without : r \in {x \in AbRows : n > 0 /\ x # t[n]}}

\* The database the next call is given holds another ab_test_results table.
AbNextDatabase ==
    /\ ab_pc = "idle"
    /\ ab_test_results' \in NeighbourTables(ab_test_results)
    /\ UNCHANGED <<users, user_logs, temp_clusters, ret_vars, ab_vars, seg_vars,
                   dash_vars, clock, gen_vars>>

NextLife == analyze_ab_test \/ AbReturn \/ AbNextDatabase

SpecLife == InitSig /\ [][NextLife]_vars

(***************************************************************************)
(* run_all_analysis: the three engines called one after the other, an      *)
(* exception of one ending the invocation.                                 *)
(***************************************************************************)
\* Line 35.
RunRetention == ab_pc = "idle" /\ seg_pc = "idle" /\ RetCall

\* Mutant: the call of the retention engine is wrapped in try/except.
RunAbTest_AfterAbort == ret_pc \in {"done", "failed"} /\ seg_pc = "idle" /\ AbCall

\* Line 41, reached when calculate_retention has returned.
RunAbTest == ret_pc = "done" /\ seg_pc = "idle" /\ AbCall

\* Line 47, reached when analyze_ab_test has returned.
RunSegments == ret_pc = "done" /\ ab_pc = "done" /\ SegCall(3)

run_all_analysis ==
    \/ RunRetention \/ RetOverall \/ RetReward \/ RetCohort \/ RetSave
    \/ RunAbTest \/ AbZTest \/ AbChi2 \/ AbSave
    \/ RunSegments \/ SegSweep \/ SegFit \/ SegToSql \/ SegRetention \/ SegHte
    \/ SegDrop \/ SegSave

\* The pipeline on every store of the segmentation engine, no document on disk.
InitPipe == InitSegRun

NextPipe == run_all_analysis

SpecPipe == InitPipe /\ [][NextPipe]_vars

(***************************************************************************)
(* The presentation layer: the static export and the pages of the          *)
(* dashboard, each loading the documents that are on disk.                 *)
(***************************************************************************)
\* load_analysis_results: the keys of the dict it returns.
LoadAnalysisResults ==
    {k \in {"retention"} : retention_file.present}
        \cup {k \in {"ab_test"} : ab_file.present}
        \cup {k \in {"segment"} : seg_file.present}

\* The keys the f-string of lines 253-283 subscripts results with, in order.
HtmlKeys == <<"retention", "ab_test", "ab_test", "segment", "retention">>

\* create_static_dashboard: the warning of lines 43-45, the KeyError of the
\* first subscript of the f-string whose key is not loaded, or docs/index.html
\* written.  The figure sections (lines 64-140) are each under 'if key in results'.
StaticDashboard(results) ==
    LET absent == SelectSeq(HtmlKeys, LAMBDA k : k \notin results)
    IN  IF results = {}
        THEN [request |-> "static", outcome |-> "warning",
              missing |-> {"retention", "ab_test", "segment"}, delta |-> "none"]
        ELSE IF absent # <<>>
        THEN [request |-> "static", outcome |-> "KeyError",
              missing |-> {absent[1]}, delta |-> "none"]
        ELSE [request |-> "static", outcome |-> "written", missing |-> {},
              delta |-> "none"]

CreateStaticDashboard ==
    /\ dash_out' = StaticDashboard(LoadAnalysisResults)
    /\ UNCHANGED <<store, ret_vars, ab_vars, seg_vars, clock, gen_vars>>

\* The pages of the sidebar and the document each of the three analysis pages
\* asks for.
Pages ==
    {"Overview", "Retention Analysis", "A/B Test Results", "User Segmentation",
     "Insights & Actions"}
PageDocument ==
    [p \in {"Retention Analysis", "A/B Test Results", "User Segmentation"} |->
        CASE p = "Retention Analysis" -> "retention"
          [] p = "A/B Test Results" -> "ab_test"
          [] p = "User Segmentation" -> "segment"]

\* show_overview lines 77-81: the delta of the P-value card, from the stored
\* p_value.
OverviewDelta(ab_test) ==
    IF ab_test.statistical_tests.z_test.p_value = "<0.05"
    THEN "Significant"
    ELSE "Not Significant"

\* main of app.py for one page: st.error when nothing is loaded; the warning
\* of an analysis page whose document is not loaded; otherwise the page, in
\* which the overview shows the sections of the loaded documents only.  An
\* exception of a page is caught by main (lines 427-429).
PageView(page, results) ==
    IF results = {}
    THEN [request |-> page, outcome |-> "error",
          missing |-> {"retention", "ab_test", "segment"}, delta |-> "none"]
    ELSE IF page \in DOMAIN PageDocument /\ PageDocument[page] \notin results
    THEN [request |-> page, outcome |-> "warning",
          missing |-> {PageDocument[page]}, delta |-> "none"]
    ELSE [request |-> page, outcome |-> "shown", missing |-> {},
          delta |-> IF page = "Overview" /\ "ab_test" \in results
                    THEN OverviewDelta(ab_file.doc)
                    ELSE "none"]

Main(page) ==
    /\ dash_out' = PageView(page, LoadAnalysisResults)
    /\ UNCHANGED <<store, ret_vars, ab_vars, seg_vars, clock, gen_vars>>

\* The pipeline on the stores of the segmentation engine with MaxSegUsers
\* users of whom only the first has events, and the presentation layer asked
\* at any moment.
InitDashRun ==
    /\ InitSegRun
    /\ Cardinality(DOMAIN users) = MaxSegUsers
    /\ \A l \in user_logs : l.user_id = 1

NextDash ==
    \/ run_all_analysis
    \/ CreateStaticDashboard
    \/ \E page \in Pages : Main(page)

SpecDash == InitDashRun /\ [][NextDash]_vars

(***************************************************************************)
(* What the claims speak of, stated on the tables directly.                *)
(***************************************************************************)
Horizons == Range(retention_days)

\* Users whose signup_date + h days is on or before the current date.
Eligible(h) == {u \in DOMAIN users : users[u] + h <= Today}

\* The user has an event whose calendar date is d.
HasEventOn(u, d) ==
    \E l \in user_logs : l.user_id = u /\ l.event_timestamp.date = d

\* The user has a reward_earned event on the calendar day of their signup.
Day0Reward(u) ==
    \E l \in user_logs :
        /\ l.user_id = u
        /\ l.event_name = "reward_earned"
        /\ l.event_timestamp.date = users[u]

RewardClass(h) == {u \in Eligible(h) : Day0Reward(u)}
NoRewardClass(h) == Eligible(h) \ RewardClass(h)

ClassTotal(comparison, t) ==
    IF t \in DOMAIN comparison THEN comparison[t].total_users ELSE 0

\* C1: for every horizon h, total_users is the number of users whose
\* signup_date + h is on or before today, and a user whose signup_date + h is
\* after today is in neither count, also when they have an event on that day.
C1_Eligibility ==
    \A h \in Horizons :
        DKey(h) \in DOMAIN overall_retention =>
            LET e == overall_retention[DKey(h)]
                late == DOMAIN users \ Eligible(h)
            IN  /\ e.total_users = Cardinality(Eligible(h))
                /\ e.retained_users =
                      Cardinality({u \in DOMAIN users : HasEventOn(u, users[u] + h)})
                      - Cardinality({u \in late : HasEventOn(u, users[u] + h)})

\* A run has finished on a store where one user is eligible for D14 and another
\* is not, the latter with an event dated signup_date + 14.
C1_Witness ==
    /\ ret_pc = "done"
    /\ Eligible(14) # {}
    /\ \E u \in DOMAIN users \ Eligible(14) : HasEventOn(u, users[u] + 14)

\* C2: an eligible user is counted as retained for horizon h if and only if
\* they have an event dated exactly signup_date + h, and once only.
C2_ExactDay ==
    \A h \in Horizons :
        DKey(h) \in DOMAIN overall_retention =>
            overall_retention[DKey(h)].retained_users =
                Cardinality({u \in Eligible(h) : HasEventOn(u, users[u] + h)})

\* A run has finished on a store where an eligible user has two events on
\* day 1 and none on day 3: counted once for D1, not at all for D3.
C2_Witness ==
    /\ ret_pc = "done"
    /\ \E u \in Eligible(3) :
          /\ Cardinality({l \in user_logs :
                            l.user_id = u /\ l.event_timestamp.date = users[u] + 1}) = 2
          /\ overall_retention["D1"].retained_users = 1
          /\ overall_retention["D3"].retained_users = 0

EntryInRange(e) ==
    /\ 0 <= e.retained_users
    /\ e.retained_users <= e.total_users
    /\ 0 <= e.retention_rate
    /\ e.retention_rate <= 10000
    /\ (e.total_users = 0 => e.retention_rate = 0)

\* C3: every entry of overall_retention and every class entry of
\* reward_comparison has 0 <= retained_users <= total_users and a rate in
\* [0, 100], the rate being 0 when total_users is 0.
C3_CountsAndRates ==
    /\ \A k \in DOMAIN overall_retention : EntryInRange(overall_retention[k])
    /\ \A k \in DOMAIN reward_comparison :
          \A t \in DOMAIN reward_comparison[k] \cap {"reward", "no_reward"} :
              EntryInRange(reward_comparison[k][t])

\* A run has finished with a horizon nobody is eligible for (rate 0), a horizon
\* whose eligible users are all retained (rate 100) and a class entry.
C3_Witness ==
    /\ ret_pc = "done"
    /\ \E k \in DOMAIN overall_retention : overall_retention[k].total_users = 0
    /\ \E k \in DOMAIN overall_retention :
          /\ overall_retention[k].total_users > 0
          /\ overall_retention[k].retention_rate = 10000
    /\ \E k \in DOMAIN reward_comparison : DOMAIN reward_comparison[k] # {}

\* C4: for every horizon, the 'reward' class holds exactly the eligible users
\* with a reward_earned event on their signup day, 'no_reward' the other
\* eligible users.
C4_RewardClasses ==
    \A h \in Horizons :
        DKey(h) \in DOMAIN reward_comparison =>
            LET c == reward_comparison[DKey(h)]
            IN  /\ ClassTotal(c, "reward") = Cardinality(RewardClass(h))
                /\ ClassTotal(c, "no_reward") = Cardinality(NoRewardClass(h))

\* D1 has been compared on a store with a day-0 reward user and a user whose
\* only reward came on a later day.
C4_Witness ==
    /\ "D1" \in DOMAIN reward_comparison
    /\ RewardClass(1) # {}
    /\ \E u \in NoRewardClass(1) :
          \E l \in user_logs :
              /\ l.user_id = u
              /\ l.event_name = "reward_earned"
              /\ l.event_timestamp.date > users[u]

\* C5: when both classes have an eligible user at some horizon, the run
\* completes and writes its document, a zero column of the 2x2 table included:
\* no such run ends in an exception.
C5_DegenerateTableCompletes ==
    (\E h \in Horizons : RewardClass(h) # {} /\ NoRewardClass(h) # {}) =>
        ret_pc # "failed"

\* C6: at a horizon where a class has no eligible user the entry has no
\* statistical_test and no entry for that class, statistical_test is there
\* only when both classes have an eligible user, and the run completes.
C6_MissingClassTolerated ==
    \A h \in Horizons :
        LET k == DKey(h) IN
        /\ (k \in DOMAIN reward_comparison =>
               LET c == reward_comparison[k]
               IN  /\ ("reward" \in DOMAIN c <=> RewardClass(h) # {})
                   /\ ("no_reward" \in DOMAIN c <=> NoRewardClass(h) # {})
                   /\ ("statistical_test" \in DOMAIN c <=>
                          RewardClass(h) # {} /\ NoRewardClass(h) # {}))
        /\ (RewardClass(h) = {} \/ NoRewardClass(h) = {} => ret_pc # "failed")

\* The calendar week of a day number.
WeekOf(d) == d \div 7
SignupWeeks == {WeekOf(users[u]) : u \in DOMAIN users}

\* C7: users are grouped by the calendar week of their signup: cohort_analysis
\* has exactly one entry per week with a signup, each naming a day of its week
\* (from the week's first day to the signup day) and counting the users who
\* signed up in that week.
C7_CohortPerWeek ==
    ret_pc \in {"save", "done"} =>
        /\ Len(cohort_analysis) = Cardinality(SignupWeeks)
        /\ \A i \in DOMAIN cohort_analysis :
              \E u \in DOMAIN users :
                  /\ cohort_analysis[i].cohort_week \in
                        {ToString(d) : d \in 7 * WeekOf(users[u]) .. users[u]}
                  /\ cohort_analysis[i].cohort_size =
                        Cardinality({v \in DOMAIN users :
                                        WeekOf(users[v]) = WeekOf(users[u])})


(***************************************************************************)
(* Significance engine.                                                    *)
(***************************************************************************)
GroupSize(g) ==
    Cardinality({u \in DOMAIN ab_test_results : ab_test_results[u].group_name = g})
GroupConversions(g) ==
    Cardinality({u \in DOMAIN ab_test_results :
                    /\ ab_test_results[u].group_name = g
                    /\ ab_test_results[u].is_converted = 1})
MissingGroups == {g \in {"A", "B"} : GroupSize(g) = 0}
AbStarted == ab_pc \notin {"idle", "extract"}

\* C8: when ab_test_results has no row of group A, or none of group B, the
\* run aborts with an error whose message names a missing group.
C8_MissingGroupNamed ==
    AbStarted /\ MissingGroups # {} =>
        /\ ab_pc = "failed"
        /\ \E g \in MissingGroups : g \in Range(ab_error.message)

\* C9: a group of n = 0 users gets conversion_rate = 0, nothing downstream
\* raises, and a document is produced.
C9_EmptyGroupGuard ==
    AbStarted /\ MissingGroups # {} =>
        /\ ab_pc # "failed"
        /\ (ab_pc = "done" =>
               /\ ab_file.present
               /\ ("A" \in MissingGroups => ab_file.doc.group_a.conversion_rate = 0)
               /\ ("B" \in MissingGroups => ab_file.doc.group_b.conversion_rate = 0))

\* The pooled standard error is 0: the pooled proportion is 0 or 1.
PooledSeZero ==
    /\ MissingGroups = {}
    /\ GroupConversions("A") + GroupConversions("B")
          \in {0, GroupSize("A") + GroupSize("B")}

\* C10: when the pooled standard error is 0, the run reports z_score = 0, not
\* significant, recommends keeping the control, and completes with a written
\* document.
C10_ZeroSeCompletes ==
    AbStarted /\ PooledSeZero =>
        /\ ab_ztest.z_score.sign = 0
        /\ ~ab_ztest.significant
        /\ Recommendation(ab_ztest) = "Keep control or run longer test"
        /\ ab_pc # "failed"
        /\ (ab_pc = "done" => ab_file.present)


\* The table of the A/B test, read off ab_test_results: a, b the converted and
\* not converted users of group A, c, d those of group B.
TableA == GroupConversions("A")
TableB == GroupSize("A") - GroupConversions("A")
TableC == GroupConversions("B")
TableD == GroupSize("B") - GroupConversions("B")

\* Pearson's statistic without continuity correction,
\* N (ad - bc)^2 / (r1 r2 c1 c2), as a fraction.
PearsonFraction ==
    LET x == TableA * TableD - TableB * TableC
    IN  <<(TableA + TableB + TableC + TableD) * x * x,
          (TableA + TableB) * (TableC + TableD) * (TableA + TableC) * (TableB + TableD)>>

\* The two-tailed p-value of the z-test is below 0.05: |z| > 1.959964, that is
\* the squared z (Pearson's statistic) above 3.84146.
PValueBelowAlpha == PearsonFraction[1] * 100000 > 384146 * PearsonFraction[2]

\* p_b > p_a
TreatmentBetter == TableC * (TableA + TableB) > TableA * (TableC + TableD)

\* C11: the document recommends 'Deploy treatment' if and only if the z-test
\* p-value is below 0.05 and p_b > p_a; such a document has
\* z_test.significant = true and group_b's rate above group_a's.
C11_RecommendationRule ==
    ab_file.present =>
        /\ (ab_file.doc.recommendation = "Deploy treatment"
               <=> PValueBelowAlpha /\ TreatmentBetter)
        /\ (ab_file.doc.recommendation # "Deploy treatment"
               => ab_file.doc.recommendation = "Keep control or run longer test")
        /\ (ab_file.doc.recommendation = "Deploy treatment" =>
               /\ ab_file.doc.statistical_tests.z_test.significant
               /\ ab_file.doc.group_b.conversion_rate
                     > ab_file.doc.group_a.conversion_rate)

\* A document that recommends deployment has been written.
C11_Witness ==
    ab_file.present /\ ab_file.doc.recommendation = "Deploy treatment"

\* C12: the reported chi_square is Pearson's statistic without Yates
\* correction, equal to the square of the z-score of the same run, with one
\* degree of freedom.
C12_PearsonUncorrected ==
    ab_file.present =>
        LET t == ab_file.doc.statistical_tests
        IN  /\ t.chi_square_test.chi_square = Round4(PearsonFraction)
            /\ t.chi_square_test.chi_square = Round4(t.z_test.z_score.sq)
            /\ t.chi_square_test.degrees_of_freedom = 1

(***************************************************************************)
(* The segmentation engine, stated on the tables and the labels directly.  *)
(***************************************************************************)
\* The AB-assigned users of a cluster in one arm, and the converted among them.
ArmUsers(c, g) ==
    {u \in DOMAIN ab_test_results \cap DOMAIN seg_labels :
        seg_labels[u] = c /\ ab_test_results[u].group_name = g}
ArmConversions(c, g) ==
    Cardinality({u \in ArmUsers(c, g) : ab_test_results[u].is_converted = 1})

\* (n_a, conv_a, n_b, conv_b) of a cluster, as the significance engine names them.
ClusterArms(c) ==
    [n_a |-> Cardinality(ArmUsers(c, "A")), conv_a |-> ArmConversions(c, "A"),
     n_b |-> Cardinality(ArmUsers(c, "B")), conv_b |-> ArmConversions(c, "B")]

\* The HTE loop has run to its end.
HteDone == seg_pc \in {"drop", "save", "done"}

\* C13: the lift_pct of every cluster reported in heterogeneous_treatment_effects
\* is the relative_lift_pct the significance engine computes for the cluster's
\* (n_a, conv_a, n_b, conv_b), and is exactly 0 where the control rate is 0;
\* the document holds these entries.
C13_SharedLiftRule ==
    /\ \A i \in DOMAIN hte_analysis :
          LET e == hte_analysis[i]
              l == ClusterArms(e.cluster_id)
          IN  /\ e.lift_pct = RelativeLift(l)
              /\ l.conv_a = 0 => e.lift_pct = 0
    /\ seg_file.present =>
          seg_file.doc.heterogeneous_treatment_effects = hte_analysis

\* A document reports one cluster whose control arm has no conversion and whose
\* treatment arm has one, and another whose lift is not zero.
C13_Witness ==
    /\ seg_file.present
    /\ \E i, j \in DOMAIN seg_file.doc.heterogeneous_treatment_effects :
          LET e == seg_file.doc.heterogeneous_treatment_effects[i]
              f == seg_file.doc.heterogeneous_treatment_effects[j]
          IN  /\ ClusterArms(e.cluster_id).conv_a = 0
              /\ ClusterArms(e.cluster_id).conv_b > 0
              /\ ClusterArms(f.cluster_id).conv_a > 0
              /\ f.lift_pct # 0

\* Every ab_test_results row is in arm A or arm B.
OnlyArmsAB ==
    \A u \in DOMAIN ab_test_results : ab_test_results[u].group_name \in GroupNames

BothArms(c) == ArmUsers(c, "A") # {} /\ ArmUsers(c, "B") # {}

\* C14: on a store whose AB rows are all in arm A or B, the HTE step does not
\* abort, and once it has run a cluster id is reported, once, if and only if
\* the cluster has a user in arm A and a user in arm B.
C14_HteMembership ==
    OnlyArmsAB =>
        /\ seg_error # IndexErrorOutOfBounds
        /\ HteDone =>
              \A c \in 0..(n_clusters - 1) :
                  Cardinality({i \in DOMAIN hte_analysis :
                                  hte_analysis[i].cluster_id = c})
                      = IF BothArms(c) THEN 1 ELSE 0
        /\ seg_file.present =>
              seg_file.doc.heterogeneous_treatment_effects = hte_analysis

\* A document was written for three clusters: one with both arms, one with one
\* arm only and one without AB-assigned user.
C14_Witness ==
    /\ seg_file.present
    /\ OnlyArmsAB
    /\ \E c1, c2, c3 \in 0..(n_clusters - 1) :
          /\ BothArms(c1)
          /\ ArmUsers(c2, "A") # {} /\ ArmUsers(c2, "B") = {}
          /\ ArmUsers(c3, "A") = {} /\ ArmUsers(c3, "B") = {}
          /\ ClusterDf(seg_labels, c3) # {}
    /\ Len(seg_file.doc.heterogeneous_treatment_effects) = 1
\* The feature vector of a user without events.
ZeroFeatures ==
    [total_events |-> 0, active_days |-> 0, reward_count |-> 0,
     total_reward_value |-> 0, activities_completed |-> 0,
     avg_daily_events |-> <<0, 1>>, activity_ratio |-> <<0, 1>>]

\* The final fit has returned.
SegFitted ==
    \/ seg_pc \in {"retention", "query", "hte", "drop", "save", "done"}
    \/ seg_pc = "failed" /\ seg_error = IndexErrorOutOfBounds

\* C15: once the features are extracted every user of the users table has a
\* feature row, all zero for a user without events; once the final fit has
\* returned every user has one label in 0..n_clusters-1; and a document has
\* total_users = the number of users, one segment_statistics entry per cluster
\* id in order, each with the size of its cluster, the sizes summing to
\* total_users.
C15_EveryUserClustered ==
    /\ seg_pc # "idle" =>
          /\ DOMAIN seg_df = DOMAIN users
          /\ \A u \in DOMAIN users : LogsOf(u) = {} => seg_df[u] = ZeroFeatures
    /\ SegFitted =>
          /\ DOMAIN seg_labels = DOMAIN users
          /\ \A u \in DOMAIN users : seg_labels[u] \in 0..(n_clusters - 1)
    /\ seg_file.present =>
          LET doc == seg_file.doc
              stats == doc.segment_statistics
          IN  /\ doc.total_users = Cardinality(DOMAIN users)
              /\ Len(stats) = doc.n_clusters
              /\ \A i \in DOMAIN stats :
                    /\ stats[i].cluster_id = i - 1
                    /\ stats[i].size = Cardinality(ClusterDf(seg_labels, i - 1))
              /\ Sum([i \in DOMAIN stats |-> stats[i].size]) = doc.total_users

\* A document was written for three clusters on a store with users without
\* events and a user with events; one cluster is empty.
C15_Witness ==
    /\ seg_file.present
    /\ seg_file.doc.n_clusters = 3
    /\ \E u, v \in DOMAIN users : LogsOf(u) = {} /\ LogsOf(v) # {}
    /\ \E i \in DOMAIN seg_file.doc.segment_statistics :
          seg_file.doc.segment_statistics[i].size = 0
    /\ \E i \in DOMAIN seg_file.doc.segment_statistics :
          seg_file.doc.segment_statistics[i].size > 1

\* C16: every entry of segment_retention is for one cluster; its total_users
\* is the number of the cluster's users with signup_date + 7 <= today, its
\* d7_retained the number of those with an event dated signup_date + 7, so
\* d7_retained <= total_users <= size of the cluster and the rate, the
\* rounded percentage of the two, is in [0, 100]; the document holds these
\* entries.
C16_SegmentRetention ==
    /\ \A i \in DOMAIN segment_retention :
          LET e == segment_retention[i]
              members == ClusterDf(seg_labels, e.cluster_id)
              eligible == {u \in members : users[u] + 7 <= Today}
              retained == {u \in eligible : HasEventOn(u, users[u] + 7)}
          IN  /\ e.total_users = Cardinality(eligible)
              /\ e.d7_retained = Cardinality(retained)
              /\ e.d7_retained <= e.total_users
              /\ e.total_users <= Cardinality(members)
              /\ e.d7_retention_rate = RoundDiv(e.d7_retained * 10000, e.total_users)
              /\ 0 <= e.d7_retention_rate /\ e.d7_retention_rate <= 10000
              /\ \A j \in DOMAIN segment_retention :
                    segment_retention[j].cluster_id = e.cluster_id => j = i
    /\ seg_file.present => seg_file.doc.segment_retention = segment_retention

\* A document reports a cluster with a member who signed up six days ago
\* beside eligible members, and another cluster whose member is retained.
C16_Witness ==
    /\ seg_file.present
    /\ \E i, j \in DOMAIN seg_file.doc.segment_retention :
          LET e == seg_file.doc.segment_retention[i]
              f == seg_file.doc.segment_retention[j]
          IN  /\ e.total_users < Cardinality(ClusterDf(seg_labels, e.cluster_id))
              /\ e.total_users > 0
              /\ f.d7_retained = 1

\* C17: when analyze_segments has returned or aborted, the store holds no
\* temp_clusters table, as it did when the run began.
C17_StoreLeftAsFound ==
    seg_pc \in {"done", "failed"} => temp_clusters = NoTable
(***************************************************************************)
(* The document of the significance engine over a sequence of runs.        *)
(***************************************************************************)
\* The complete document of a run on the table the store holds.
AbDocument == CompileResults(ZTestLocals(AbQuery))

C19_AbsentDocumentReported ==
    /\ dash_out.outcome # "KeyError"
    /\ \A k \in {"retention", "ab_test", "segment"} \ LoadAnalysisResults :
          \/ dash_out.request \in {"none", "Overview", "Insights & Actions"}
          \/ dash_out.request \in DOMAIN PageDocument
                /\ PageDocument[dash_out.request] # k
          \/ k \in dash_out.missing

\* C20: an engine of run_all_analysis has started only if the engine before it
\* has returned and its document is on disk; so after an abort no later engine
\* has started and the documents of the earlier engines are on disk.
C20_PipelineOrder ==
    /\ ab_pc # "idle" => ret_pc = "done" /\ retention_file.present
    /\ seg_pc # "idle" =>
          /\ ret_pc = "done" /\ retention_file.present
          /\ ab_pc = "done" /\ ab_file.present
    /\ ab_file.present => retention_file.present
    /\ seg_file.present => ab_file.present

\* The A/B engine has aborted after the retention engine wrote its document,
\* and the segmentation engine has not started.
C20_Witness ==
    /\ ab_pc = "failed"
    /\ ret_pc = "done"
    /\ retention_file.present
    /\ seg_pc = "idle"
    /\ ~seg_file.present

(***************************************************************************)
(* The retention engine beside an external writer: another connection      *)
(* commits new users and events while the run of calculate_retention is    *)
(* between two of its queries.  Each pd.read_sql_query is one SELECT in    *)
(* autocommit mode, so it reads one committed state of the store.          *)
(***************************************************************************)
ExternalWrite ==
    /\ ret_pc \in {"overall", "reward", "cohort"}
    /\ \/ /\ Len(users) < MaxUsers
          /\ \E d \in SignupDays : users' = Append(users, d)
          /\ UNCHANGED user_logs
       \/ /\ Cardinality(user_logs) < MaxLogs
          /\ \E r \in LogRows \ user_logs :
                /\ r.user_id \in DOMAIN users
                /\ user_logs' = user_logs \cup {r}
          /\ UNCHANGED users
    /\ UNCHANGED <<ab_test_results, temp_clusters>>
    /\ UNCHANGED <<ret_vars, ab_vars, seg_vars, dash_vars, clock, gen_vars>>

\* No horizon of the store as it stands gives chi2_contingency a table with a
\* zero expected frequency: a run that nobody writes beside returns.
QuietRunReturns ==
    \A i \in DOMAIN retention_days :
        LET comparison == ComparisonClasses(retention_days[i])
        IN  ~(RunsChi2(comparison) /\ Chi2ZeroExpected(ContingencyTable(comparison)))

\* The run starts on a store on which it would return if left alone.
InitConc == Init /\ QuietRunReturns

NextConc == calculate_retention \/ ExternalWrite

SpecConc == InitConc /\ [][NextConc]_vars

\* Every horizon entry, class entry and cohort entry is within its bounds.
C21_EntriesInRange ==
    /\ C3_CountsAndRates
    /\ \A i \in DOMAIN cohort_analysis :
          \A f \in {"d1_retained", "d7_retained", "d30_retained"} :
              cohort_analysis[i][f] <= cohort_analysis[i].cohort_size

\* C21: with an external writer appending users and events between the
\* queries, the run does not end in an exception, and every horizon entry,
\* class entry and cohort entry has retained <= total and a rate in [0, 100].
C21_ConcurrentWritersTolerated ==
    /\ ret_pc # "failed"
    /\ C21_EntriesInRange

\* The k's of an elbow list, in its order.
ElbowKs(elbow) == [i \in DOMAIN elbow |-> elbow[i].k]

C22_SweepAndFit ==
    /\ seg_pc \in {"fit", "retention", "query", "hte", "drop", "save", "done"} =>
          ElbowKs(elbow_data) = <<2, 3, 4, 5, 6, 7>>
    /\ SegFitted =>
          /\ Range(seg_labels) \subseteq 0..(n_clusters - 1)
          /\ Cardinality(Range(seg_labels)) =
                Min(n_clusters, Cardinality(DistinctPoints))
          /\ Len(segment_stats) = n_clusters
    /\ (seg_pc = "done" /\ seg_file.present) =>
          /\ ElbowKs(seg_file.doc.elbow_analysis) = <<2, 3, 4, 5, 6, 7>>
          /\ seg_file.doc.n_clusters = n_clusters
          /\ Len(seg_file.doc.segment_statistics) = n_clusters

\* C22: whatever n_clusters the caller passes, elbow_analysis holds the six
\* entries k = 2..7 in ascending order, the final model is fitted with the
\* caller's n_clusters, the document's n_clusters is that value, and nothing
\* after the call changes n_clusters.
C22_SweepIndependence ==
    /\ []C22_SweepAndFit
    /\ [][seg_pc # "idle" => n_clusters' = n_clusters]_vars

\* A run called with n_clusters = 2 has written its document after a sweep
\* whose last k was 7, with both labels of the final model in use.
C22_Witness ==
    /\ seg_pc = "done"
    /\ seg_file.present
    /\ seg_file.doc.n_clusters = 2
    /\ Len(seg_file.doc.elbow_analysis) = 6
    /\ Range(seg_labels) = {0, 1}

AvgFields == {"avg_total_events", "avg_active_days", "avg_reward_count",
              "avg_reward_value", "avg_activities"}

\* C23: every avg_* field of segment_statistics in a written segmentation
\* document is a finite number, for every cluster id 0..n_clusters-1, a cluster
\* without users included; so the document is valid JSON that parses back to
\* the values the engine returned.
C23_FiniteNumbers ==
    seg_file.present =>
        /\ Len(seg_file.doc.segment_statistics) = seg_file.doc.n_clusters
        /\ \A i \in DOMAIN seg_file.doc.segment_statistics :
              \A f \in AvgFields : seg_file.doc.segment_statistics[i][f] # NaN

(***************************************************************************)
(* analyze_segments called again on the same store later the same day.     *)
(***************************************************************************)
\* The call has returned its results; the caller may call again.
SegReturn ==
    /\ seg_pc = "done"
    /\ seg_pc' = "idle"
    /\ UNCHANGED <<store, engine_vars, clock, gen_vars, n_clusters, seg_df, elbow_data,
                   seg_labels, segment_stats, segment_retention, hte_analysis,
                   seg_error, seg_file>>

\* Time passes between two calls, within the day.  (A run reads the time of
\* day once, in its feature query, so time passing during a run shows nowhere.)
ClockTick ==
    /\ seg_pc = "idle"
    /\ \E t \in ClockTimes : t > clock /\ clock' = t
    /\ UNCHANGED <<store, engine_vars, seg_vars, gen_vars>>

NextRerun == analyze_segments \/ SegReturn \/ ClockTick

SpecRerun == InitDashRun /\ [][NextRerun]_vars

\* An entry without its cluster id, and the entries of a list as a set: what
\* two lists that differ by a renumbering of the labels have in common.
Unlabelled(e) == [f \in DOMAIN e \ {"cluster_id"} |-> e[f]]
UpToRenumbering(list) == {Unlabelled(list[i]) : i \in DOMAIN list}

\* Every distinct feature vector is a cluster of its own, so that the
\* partition of the final model is the same for every fit.
PartitionForced == Cardinality(DistinctPoints) <= n_clusters

\* C24: a run that rewrites the document of an earlier run on the same store,
\* the same day and with the same n_clusters writes the same elbow_analysis
\* and, up to a renumbering of the labels, the same segment_statistics,
\* segment_retention and heterogeneous_treatment_effects.
C24_SameDocument ==
    [][(/\ seg_pc = "save" /\ seg_pc' = "done"
        /\ seg_file.present
        /\ seg_file.doc.n_clusters = n_clusters
        /\ PartitionForced)
       => LET old == seg_file.doc
              new == seg_file'.doc
          IN  /\ new.elbow_analysis = old.elbow_analysis
              /\ UpToRenumbering(new.segment_statistics) =
                    UpToRenumbering(old.segment_statistics)
              /\ UpToRenumbering(new.segment_retention) =
                    UpToRenumbering(old.segment_retention)
              /\ UpToRenumbering(new.heterogeneous_treatment_effects) =
                    UpToRenumbering(old.heterogeneous_treatment_effects)]_vars

(***************************************************************************)
(* Data generation: create_database, generate_users, generate_logs,        *)
(* generate_ab_test and their pipeline run_all_generation.  Each generator *)
(* builds its rows in memory and sends them with one executemany inside    *)
(* one transaction, committed at the end: a failing INSERT leaves the      *)
(* transaction uncommitted and it is rolled back when the connection goes. *)
(***************************************************************************)
MaxGenUsers == 3

IntegrityErrorUnique(column) ==
    [type |-> "IntegrityError", message |-> "UNIQUE constraint failed: " \o column]
ZeroDivisionError == [type |-> "ZeroDivisionError", message |-> "division by zero"]

\* Mutant: INSERT OR REPLACE, which overwrites the row of a key that exists.
InsertConflict_OrReplace(table, keys) == FALSE

\* executemany("INSERT INTO t (...) VALUES (...)", data) on a table whose
\* primary key is the key of data raises IntegrityError at the first row whose
\* key the table holds; nothing of the transaction is committed then.
InsertConflict(table, keys) == DOMAIN table \cap keys # {}

\* The table after executemany and commit.
Inserted(table, data) == data @@ table

\* generate_users lines 47-59: users_data for user_id 1..num_users.
UsersData(num_users) == [1..num_users -> SignupDays]

\* generate_users lines 27-72.
GenUsers(num_users) ==
    /\ IF InsertConflict(users, 1..num_users)
       THEN /\ gen_error' = IntegrityErrorUnique("users.user_id")
            /\ UNCHANGED users
       ELSE /\ \E users_data \in UsersData(num_users) :
                  users' = Inserted(users, users_data)
            /\ gen_error' = NoError
    /\ UNCHANGED <<user_logs, ab_test_results, temp_clusters>>

\* generate_logs lines 51-103: the events of the users in the table.  No
\* generator reads user_logs, so the model keeps one event a user can get, the
\* reward of the signup day (lines 81-85), for any of the users.
LogsData ==
    SUBSET {r \in LogRows : /\ r.user_id \in DOMAIN users
                            /\ r.event_name = "reward_earned"
                            /\ r.event_timestamp.date = users[r.user_id]}

\* generate_logs lines 29-121: log_id is AUTOINCREMENT, no insert conflicts.
\* (A set of rows: a second copy of an event is not told from the first.)
GenLogs ==
    /\ \E logs_data \in LogsData : user_logs' = user_logs \cup logs_data
    /\ gen_error' = NoError
    /\ UNCHANGED <<users, ab_test_results, temp_clusters>>

\* The orders random.shuffle can leave a list of the elements of S in.
RECURSIVE Shuffles(_)
Shuffles(S) ==
    IF S = {} THEN {<<>>}
    ELSE UNION {{<<x>> \o rest : rest \in Shuffles(S \ {x})} : x \in S}

\* Mutant: the split rounded up.
Midpoint_Ceiling(n) == (n + 1) \div 2

\* midpoint = len(users) // 2
Midpoint(n) == n \div 2

\* random.randint(0, 7): the two ends.
ConversionDays == {0, 7}

\* Lines 52-89: the row of one user.
AbTestRow(group_name, is_converted, signup_date, days_to_conversion) ==
    [group_name |-> group_name,
     is_converted |-> is_converted,
     conversion_timestamp |->
        IF is_converted = 1 THEN <<signup_date + days_to_conversion>> ELSE NULL]

\* Lines 42-89: ab_test_data for an order of the users, the draws of
\* is_converted and, for the converted, of days_to_conversion.
AbTestData(order, converted, days) ==
    LET midpoint == Midpoint(Len(order))
        group(i) == IF i <= midpoint THEN "A" ELSE "B"
    IN  [u \in Range(order) |->
            LET i == CHOOSE j \in DOMAIN order : order[j] = u
            IN  AbTestRow(group(i), converted[u], users[u],
                          IF converted[u] = 1 THEN days[u] ELSE 0)]

\* Lines 100-103: the rates printed after the commit divide by the size of
\* each group and by the control rate.
RatesRaise(order, converted) ==
    LET midpoint == Midpoint(Len(order))
        control_conversions ==
            Cardinality({i \in 1..midpoint : converted[order[i]] = 1})
    IN  midpoint = 0 \/ Len(order) - midpoint = 0 \/ control_conversions = 0

\* generate_ab_test lines 27-108.
GenAbTest ==
    /\ IF InsertConflict(ab_test_results, DOMAIN users)
       THEN /\ gen_error' = IntegrityErrorUnique("ab_test_results.user_id")
            /\ UNCHANGED ab_test_results
       ELSE \E order \in Shuffles(DOMAIN users) :
              \E converted \in [DOMAIN users -> {0, 1}] :
                \E days \in [{u \in DOMAIN users : converted[u] = 1}
                                -> ConversionDays] :
                    /\ ab_test_results' =
                          Inserted(ab_test_results,
                                   AbTestData(order, converted, days))
                    /\ gen_error' = IF RatesRaise(order, converted)
                                    THEN ZeroDivisionError
                                    ELSE NoError
    /\ UNCHANGED <<users, user_logs, temp_clusters>>

not_gen_vars == <<ret_vars, ab_vars, seg_vars, dash_vars, clock>>

\* The generators called on their own.
generate_users(num_users) ==
    gen_pc = "idle" /\ GenUsers(num_users) /\ UNCHANGED <<gen_pc, not_gen_vars>>

generate_logs == gen_pc = "idle" /\ GenLogs /\ UNCHANGED <<gen_pc, not_gen_vars>>

generate_ab_test == gen_pc = "idle" /\ GenAbTest /\ UNCHANGED <<gen_pc, not_gen_vars>>

\* run_all.py line 40: CREATE TABLE IF NOT EXISTS leaves existing tables alone.
RunCreateDatabase ==
    /\ gen_pc = "idle"
    /\ gen_pc' = "users"
    /\ gen_error' = NoError
    /\ UNCHANGED <<store, not_gen_vars>>

\* run_all.py line 45; the num_users of the pipeline is the largest of the model.
RunGenerateUsers ==
    /\ gen_pc = "users"
    /\ GenUsers(MaxGenUsers)
    /\ gen_pc' = IF gen_error' = NoError THEN "logs" ELSE "failed"
    /\ UNCHANGED not_gen_vars

\* run_all.py line 50.
RunGenerateLogs ==
    /\ gen_pc = "logs"
    /\ GenLogs
    /\ gen_pc' = "ab"
    /\ UNCHANGED not_gen_vars

\* run_all.py line 55.
RunGenerateAbTest ==
    /\ gen_pc = "ab"
    /\ GenAbTest
    /\ gen_pc' = IF gen_error' = NoError THEN "done" ELSE "failed"
    /\ UNCHANGED not_gen_vars

\* The pipeline has returned or was ended by an exception: the next command.
GenReturn ==
    /\ gen_pc \in {"done", "failed"}
    /\ gen_pc' = "idle"
    /\ UNCHANGED <<store, gen_error, not_gen_vars>>

run_all_generation ==
    RunCreateDatabase \/ RunGenerateUsers \/ RunGenerateLogs \/ RunGenerateAbTest

\* A database file that create_database has just made, and any sequence of
\* the generation commands on it.
InitGenStore ==
    /\ users = <<>>
    /\ user_logs = {}
    /\ ab_test_results = EmptyDict
    /\ temp_clusters = NoTable
    /\ clock = 1

InitGenRun == InitGenStore /\ InitRet /\ InitAb /\ InitSeg /\ InitDash /\ InitGen

NextGen ==
    \/ run_all_generation
    \/ GenReturn
    \/ \E num_users \in 0..MaxGenUsers : generate_users(num_users)
    \/ generate_logs
    \/ generate_ab_test

SpecGen == InitGenRun /\ [][NextGen]_vars

\* The users of a group of the ab_test_results table.
GroupUsers(table, g) == {u \in DOMAIN table : table[u].group_name = g}

\* Every user has one row, of group A or B, with a conversion_timestamp exactly
\* when is_converted = 1, and group A holds floor(n/2) of the users.
AbAssigned(table) ==
    LET n == Cardinality(DOMAIN users)
    IN  /\ DOMAIN table = DOMAIN users
        /\ \A u \in DOMAIN table :
              /\ table[u].group_name \in {"A", "B"}
              /\ table[u].is_converted \in {0, 1}
              /\ table[u].conversion_timestamp # NULL <=> table[u].is_converted = 1
        /\ Cardinality(GroupUsers(table, "A")) = n \div 2
        /\ Cardinality(GroupUsers(table, "B")) = n - n \div 2

\* C25: after generate_ab_test has run on a store with users and no
\* ab_test_results row, every user has exactly one row, its group_name is 'A'
\* or 'B', its conversion_timestamp is non-null exactly when is_converted = 1,
\* and group A holds floor(n/2) of the users, group B the rest.
C25_AbAssignment ==
    [][(/\ users # <<>>
        /\ ab_test_results = EmptyDict
        /\ \/ gen_pc = "idle" /\ gen_pc' = "idle" /\ ab_test_results' # EmptyDict
           \/ gen_pc = "ab")
       => AbAssigned(ab_test_results')]_vars

\* Three users have been assigned: one to A, two to B, a converted one with
\* its timestamp and an unconverted one without.
C25_Witness ==
    /\ Cardinality(DOMAIN users) = 3
    /\ Cardinality(GroupUsers(ab_test_results, "A")) = 1
    /\ Cardinality(GroupUsers(ab_test_results, "B")) = 2
    /\ \E u, v \in DOMAIN ab_test_results :
          /\ ab_test_results[u].is_converted = 1
          /\ ab_test_results[u].conversion_timestamp # NULL
          /\ ab_test_results[v].is_converted = 0
          /\ ab_test_results[v].conversion_timestamp = NULL

\* C26: on a populated store no generation command changes a users row or an
\* ab_test_results row or gives a user a second row: a generator whose insert
\* meets an existing key ends with IntegrityError and leaves both tables as
\* they were, and run_all_generation then stops before the log and the A/B
\* steps.
C26_GenerationNeverMutates ==
    [][/\ users # <<>> => users' = users
       /\ \A u \in DOMAIN ab_test_results :
             /\ u \in DOMAIN ab_test_results'
             /\ ab_test_results'[u] = ab_test_results[u]
       /\ (gen_pc = "users" /\ users # <<>>) =>
             /\ gen_pc' = "failed"
             /\ gen_error'.type = "IntegrityError"
             /\ UNCHANGED <<users, user_logs, ab_test_results>>
       /\ (gen_pc = "ab" /\ ab_test_results # EmptyDict) =>
             /\ gen_pc' = "failed"
             /\ gen_error'.type = "IntegrityError"
             /\ UNCHANGED <<users, user_logs, ab_test_results>>]_vars

\* run_all_generation was run again on a store with users and A/B rows and
\* was ended by the insert of the first user.
C26_Witness ==
    /\ gen_pc = "failed"
    /\ gen_error = IntegrityErrorUnique("users.user_id")
    /\ users # <<>>
    /\ DOMAIN ab_test_results = DOMAIN users

ClassRetained(comparison, t) ==
    IF t \in DOMAIN comparison THEN comparison[t].retained_users ELSE 0

\* C27: on an unchanging store, at every horizon compared the total_users of
\* the 'reward' and 'no_reward' classes sum to the total_users of
\* overall_retention, which is the number of eligible users, and their
\* retained_users sum to its retained_users, an absent class counting as 0.
C27_ClassPartition ==
    \A h \in Horizons :
        (DKey(h) \in DOMAIN reward_comparison
            /\ DKey(h) \in DOMAIN overall_retention) =>
            LET c == reward_comparison[DKey(h)]
                o == overall_retention[DKey(h)]
            IN  /\ ClassTotal(c, "reward") + ClassTotal(c, "no_reward")
                      = o.total_users
                /\ o.total_users = Cardinality(Eligible(h))
                /\ ClassRetained(c, "reward") + ClassRetained(c, "no_reward")
                      = o.retained_users

\* D1 has been compared with a user in each class, one of the two retained.
C27_Witness ==
    /\ "D1" \in DOMAIN reward_comparison
    /\ ClassTotal(reward_comparison["D1"], "reward") = 1
    /\ ClassTotal(reward_comparison["D1"], "no_reward") = 1
    /\ overall_retention["D1"].retained_users = 1

\* The sum of a field over the entries of a list.
SumOver(list, field) == Sum([i \in DOMAIN list |-> list[i][field]])

\* C28: when both engines have written their documents from the same store on
\* the same day, the total_users of segment_retention sum to
\* overall_retention['D7'].total_users and the d7_retained to its
\* retained_users, and a cluster without an entry has no D7-eligible user.
C28_CrossEngine ==
    (retention_file.present /\ seg_file.present) =>
        LET d7 == retention_file.doc.overall_retention["D7"]
            entries == seg_file.doc.segment_retention
            reported == {entries[i].cluster_id : i \in DOMAIN entries}
        IN  /\ SumOver(entries, "total_users") = d7.total_users
            /\ SumOver(entries, "d7_retained") = d7.retained_users
            /\ \A c \in 0..(seg_file.doc.n_clusters - 1) \ reported :
                  ClusterDf(seg_labels, c) \cap Eligible(7) = {}

\* Both documents are written; two clusters are reported, a third is not, and
\* one of the eligible users is retained.
C28_Witness ==
    /\ retention_file.present
    /\ seg_file.present
    /\ seg_file.doc.n_clusters = 3
    /\ Len(seg_file.doc.segment_retention) = 2
    /\ retention_file.doc.overall_retention["D7"].retained_users = 1
    /\ retention_file.doc.overall_retention["D7"].total_users > 2

\* C29: the cohort_size values of cohort_analysis sum to the number of users
\* in the store, and in every cohort entry each of d1_retained, d7_retained
\* and d30_retained is at most cohort_size.
C29_CohortCounts ==
    ret_pc \in {"save", "done"} =>
        /\ SumOver(cohort_analysis, "cohort_size") = Cardinality(DOMAIN users)
        /\ \A i \in DOMAIN cohort_analysis :
              \A f \in {"d1_retained", "d7_retained", "d30_retained"} :
                  /\ 0 <= cohort_analysis[i][f]
                  /\ cohort_analysis[i][f] <= cohort_analysis[i].cohort_size

\* The cohorts were computed on a store with a user whose D30 has elapsed and
\* a user whose D30 has not, one of whom has two events on the day after the
\* signup and counts once.
C29_Witness ==
    /\ ret_pc = "done"
    /\ \E u, v \in DOMAIN users : users[u] + 30 <= Today /\ users[v] + 30 > Today
    /\ \E l, m \in user_logs :
          /\ l # m
          /\ l.user_id = m.user_id
          /\ l.event_timestamp.date = users[l.user_id] + 1
          /\ m.event_timestamp.date = users[l.user_id] + 1
    /\ \E i \in DOMAIN cohort_analysis : cohort_analysis[i].d1_retained = 1


(***************************************************************************)
(* The Overview page beside the A/B document.  The table is the one        *)
(* generate_ab_test leaves for PanelUsers users: the first half in group   *)
(* A, the rest in group B, with a few conversions in each.                 *)
(***************************************************************************)
PanelUsers == 63
MaxConvA == 3
MaxConvB == 9

PanelTable(conv_a, conv_b) ==
    LET midpoint == Midpoint(PanelUsers)
    IN  [u \in 1..PanelUsers |->
            IF u <= midpoint
            THEN [group_name |-> "A",
                  is_converted |-> IF u <= conv_a THEN 1 ELSE 0]
            ELSE [group_name |-> "B",
                  is_converted |-> IF u - midpoint <= conv_b THEN 1 ELSE 0]]

InitPanelStore ==
    /\ clock = 1
    /\ users = EmptyDict
    /\ user_logs = {}
    /\ \E conv_a \in 0..MaxConvA, conv_b \in 0..MaxConvB :
            ab_test_results = PanelTable(conv_a, conv_b)
    /\ temp_clusters = NoTable

InitOverview ==
    InitPanelStore /\ InitRet /\ InitAb /\ InitSeg /\ InitDash /\ InitGen

NextOverview ==
    \/ analyze_ab_test
    \/ \E page \in Pages : Main(page)

SpecOverview == InitOverview /\ [][NextOverview]_vars

\* C30: whenever the Overview page is shown with the A/B document loaded, its
\* label is "Significant" exactly when statistical_tests.z_test.significant of
\* the document is true, and "Not Significant" is never shown beside a
\* document whose recommendation is "Deploy treatment".
C30_LabelAgreesWithDocument ==
    (dash_out.request = "Overview" /\ dash_out.outcome = "shown" /\ ab_file.present)
        => /\ (dash_out.delta = "Significant")
                <=> ab_file.doc.statistical_tests.z_test.significant
           /\ ~(/\ dash_out.delta = "Not Significant"
                /\ ab_file.doc.recommendation = "Deploy treatment")
====
